---------------------------- MODULE Spec2Model ----------------------------
(***************************************************************************)
(* Vitacheck interaction-checking pipeline (src/server): the concurrency   *)
(* limiter, the consensus and confidence engines, the pair cache and the   *)
(* orchestrator checkInteractions.                                         *)
(*                                                                         *)
(* Specifications:                                                         *)
(*   LimSpec   one limiter returned by createLimiter                       *)
(*   ConsSpec  calculateConsensusSeverity on merged evidence lists         *)
(***************************************************************************)
EXTENDS Integers, Sequences, FiniteSets, TLC

VARIABLES
    \* ---- one limiter (createLimiter) ----
    concurrency,   \* the argument of createLimiter
    active,        \* let active
    queue,         \* const queue: ids of the queued tasks, oldest first
    taskState,     \* per task: "new", "queued", "running", "settled", "released"
    nSubmitted,    \* tasks are numbered in the order limit(fn) is called
    startOrder,    \* history: ids in the order task.fn() was invoked
    taskOutcome,   \* per task: "none", then "fulfilled" or "rejected"
    \* ---- consensus engine ----
    evidence,      \* the list handed to calculateConsensusSeverity
    consensus,     \* its result, "pending" before the call
    \* ---- mergeSources ----
    mergeIn,       \* the list handed to mergeSources
    merged,        \* [done, out]: whether it was called, and the list returned
    \* ---- one pair task after its cache miss ----
    pairIn,        \* the two lookups, options.includeAi and the API keys set
    pairPc,        \* "calls", "cacheWrite", "done"
    pairPending,   \* provider calls of the pair still in flight
    pairRes,       \* the results read at the join
    pairOut,       \* the InteractionResult built
    pairStored,    \* result_json of the row written
    \* ---- checkInteractions and the cache stores ----
    request,         \* the request being served: items and options
    env,             \* process.env: which API keys are set
    world,           \* what the upstream services know during the request
    down,            \* the endpoints that answer with an error during it
    phase,           \* "idle", "items", "pairs", "singles", "done"
    upstreamLimiter, \* [active, queue] of createLimiter(6)
    pairLimiter,     \* [active, queue] of createLimiter(3)
    itemTask,        \* per item: position of its lookup task
    medLookups,      \* the Map medLookups
    pairTask,        \* per generated pair: position of its pair task
    pairResults,     \* the Map pairResults: keys in insertion order, values
    singleTask,      \* per item: position of its single report
    response,        \* the InteractionCheckResponse returned
    medCache,        \* table med_lookup_cache, by normalized_value
    pairCache,       \* table pair_interaction_cache, by pair_key
    calcVersion,     \* CALC_VERSION of the deployed build
    inFlight,        \* upstream HTTP calls issued and not yet settled
    requestsDone,    \* requests served so far
    previous,        \* history: the response of the request served before
    \* ---- one call of a pure function ----
    call             \* the function applied, its arguments, its locals while it runs and its result

limVars == <<concurrency, active, queue, taskState, nSubmitted, startOrder, taskOutcome>>
consVars == <<evidence, consensus>>
mergeVars == <<mergeIn, merged>>
pairVars == <<pairIn, pairPc, pairPending, pairRes, pairOut, pairStored>>
reqVars ==
    <<request, env, world, down, phase, upstreamLimiter, pairLimiter, itemTask,
      medLookups, pairTask, pairResults, singleTask, response, medCache,
      pairCache, calcVersion, inFlight, requestsDone, previous>>
vars == <<limVars, consVars, mergeVars, pairVars, reqVars, call>>

-----------------------------------------------------------------------------
(* Bounds of the model *)

MaxConcurrency == 2
MaxTasks == 5
MaxSuppInteractions == 2
MaxItems == 3
MaxRequests == 2
MaxReissueItems == 2
MaxMergeLen == 3
MaxRejectedItems == 11
MaxStringLen == 4
MaxOtherStringLen == 2
MaxWarnings == 2
MaxLabelRecords == 1
MaxRetries == 2

\* cms_beneficiaries values: beneficiaries + 1 is a power of ten
ExposureCounts == {9, 99999}

\* <<totalEvents, seriousEvents>> of an adverse-event answer
EventCounts == {<<0, 0>>, <<5, 1>>, <<500, 150>>, <<5000, 1500>>}

-----------------------------------------------------------------------------
(* src/server/utils/limit.ts : createLimiter *)

Tasks == 1..MaxTasks

\* A processQueue with the guard off by one (active > concurrency).
ProcessQueueOffByOne(conc, act, q) ==
    IF act > conc \/ Len(q) = 0
    THEN [active |-> act, queue |-> q, started |-> <<>>]
    ELSE [active |-> act + 1, queue |-> Tail(q), started |-> <<Head(q)>>]

\* A processQueue that takes the newest task (queue.pop() for queue.shift()).
ProcessQueueLifo(conc, act, q) ==
    IF act >= conc \/ Len(q) = 0
    THEN [active |-> act, queue |-> q, started |-> <<>>]
    ELSE [active |-> act + 1, queue |-> SubSeq(q, 1, Len(q) - 1),
          started |-> <<q[Len(q)]>>]

\* A processQueue that starts a task only when no task holds a slot.
ProcessQueueOneAtATime(conc, act, q) ==
    IF act >= 1 \/ Len(q) = 0
    THEN [active |-> act, queue |-> q, started |-> <<>>]
    ELSE [active |-> act + 1, queue |-> Tail(q), started |-> <<Head(q)>>]

\* processQueue(): returns early when the limiter is full or nothing waits,
\* otherwise shifts the oldest task, counts it active and invokes its fn.
ProcessQueue(conc, act, q) ==
    IF act >= conc \/ Len(q) = 0
    THEN [active |-> act, queue |-> q, started |-> <<>>]
    ELSE [active |-> act + 1, queue |-> Tail(q), started |-> <<Head(q)>>]

\* limit(fn): queue.push({fn, resolve, reject}); processQueue()
Submit ==
    /\ nSubmitted < MaxTasks
    /\ LET t == nSubmitted + 1
           r == ProcessQueue(concurrency, active, Append(queue, t))
       IN /\ nSubmitted' = t
          /\ active' = r.active
          /\ queue' = r.queue
          /\ startOrder' = startOrder \o r.started
          /\ taskState' = [u \in Tasks |->
                IF u \in {r.started[i] : i \in 1..Len(r.started)} THEN "running"
                ELSE IF u = t THEN "queued"
                ELSE taskState[u]]
    /\ UNCHANGED <<concurrency, taskOutcome>>

\* The promise returned by task.fn() settles (fulfilled or rejected): the
\* .then(task.resolve).catch(task.reject) links hand the outcome on.
Settle(t) ==
    /\ taskState[t] = "running"
    /\ taskState' = [taskState EXCEPT ![t] = "settled"]
    /\ \E o \in {"fulfilled", "rejected"} : taskOutcome' = [taskOutcome EXCEPT ![t] = o]
    /\ UNCHANGED <<concurrency, active, queue, nSubmitted, startOrder>>

\* A release hooked with .then in place of .finally: only a fulfilled task
\* gives its slot back.
ReleaseOnFulfilOnly(t) ==
    /\ taskState[t] = "settled"
    /\ taskOutcome[t] = "fulfilled"
    /\ LET r == ProcessQueue(concurrency, active - 1, queue)
       IN /\ active' = r.active
          /\ queue' = r.queue
          /\ startOrder' = startOrder \o r.started
          /\ taskState' = [u \in Tasks |->
                IF u \in {r.started[i] : i \in 1..Len(r.started)} THEN "running"
                ELSE IF u = t THEN "released"
                ELSE taskState[u]]
    /\ UNCHANGED <<concurrency, nSubmitted, taskOutcome>>

\* The .finally callback of a settled task: active--; processQueue()
Release(t) ==
    /\ taskState[t] = "settled"
    /\ LET r == ProcessQueue(concurrency, active - 1, queue)
       IN /\ active' = r.active
          /\ queue' = r.queue
          /\ startOrder' = startOrder \o r.started
          /\ taskState' = [u \in Tasks |->
                IF u \in {r.started[i] : i \in 1..Len(r.started)} THEN "running"
                ELSE IF u = t THEN "released"
                ELSE taskState[u]]
    /\ UNCHANGED <<concurrency, nSubmitted, taskOutcome>>

-----------------------------------------------------------------------------
(* src/server/constants.ts, src/server/logic/consensus *)

Severities == {"unknown", "none", "mild", "moderate", "severe"}

\* InteractionSource.name of the records the pipeline produces
SourceNames == <<"RxNorm", "FDA Label", "SUPP.AI", "openFDA Adverse Events", "AI Literature">>

\* SOURCE_WEIGHTS, in tenths
SOURCE_WEIGHTS(name) ==
    CASE name = "RxNorm" -> 10
      [] name = "FDA Label" -> 9
      [] name = "SUPP.AI" -> 6
      [] name = "openFDA Adverse Events" -> 7
      [] name = "AI Literature" -> 5
      [] OTHER -> 0

\* getSourceWeight: SOURCE_WEIGHTS[sourceName] || 0.5
getSourceWeight(name) ==
    IF SOURCE_WEIGHTS(name) # 0 THEN SOURCE_WEIGHTS(name) ELSE 5

\* A reliability test with the bar at 0.5.
isHighReliabilitySourceLowBar(name) == getSourceWeight(name) >= 5

\* isHighReliabilitySource: getSourceWeight(sourceName) >= 0.8
isHighReliabilitySource(name) == getSourceWeight(name) >= 8

RECURSIVE VotesFor(_, _)
\* votes[sev]: the summed weight of the records of the list voting sev
VotesFor(sources, sev) ==
    IF Len(sources) = 0 THEN 0
    ELSE (IF Head(sources).severity = sev THEN getSourceWeight(Head(sources).name) ELSE 0)
         + VotesFor(Tail(sources), sev)

HasHighReliabilitySevere(sources) ==
    \E i \in 1..Len(sources) :
        isHighReliabilitySource(sources[i].name) /\ sources[i].severity = "severe"

HasHighReliabilityNonSevere(sources) ==
    \E i \in 1..Len(sources) :
        /\ isHighReliabilitySource(sources[i].name)
        /\ sources[i].severity # "severe"
        /\ sources[i].severity # "unknown"

\* The final loop over candidates ["moderate","mild","none","unknown"]:
\* the first candidate holding the strictly greatest weight, "unknown" when
\* every candidate has weight 0.
HighestVoted(sources) ==
    LET vm == VotesFor(sources, "moderate")
        vl == VotesFor(sources, "mild")
        vn == VotesFor(sources, "none")
        vu == VotesFor(sources, "unknown")
        m1 == IF vm > 0 THEN vm ELSE 0
        c1 == IF vm > 0 THEN "moderate" ELSE "unknown"
        m2 == IF vl > m1 THEN vl ELSE m1
        c2 == IF vl > m1 THEN "mild" ELSE c1
        m3 == IF vn > m2 THEN vn ELSE m2
        c3 == IF vn > m2 THEN "none" ELSE c2
    IN IF vu > m3 THEN "unknown" ELSE c3

\* A calculateConsensusSeverity whose downgrade to moderate is not guarded
\* by votes.severe > 0.
calculateConsensusSeverityUnguarded(sources) ==
    IF Len(sources) = 0 THEN "unknown"
    ELSE LET vs == VotesFor(sources, "severe")
             vm == VotesFor(sources, "moderate")
         IN IF vs > 0 /\ HasHighReliabilitySevere(sources) THEN "severe"
            ELSE IF vs >= 15
                 THEN (IF HasHighReliabilityNonSevere(sources) /\ vm * 10 > vs * 8
                       THEN "moderate" ELSE "severe")
            ELSE IF HasHighReliabilityNonSevere(sources) THEN "moderate"
            ELSE IF vs > 0 /\ vm > 0 THEN "moderate"
            ELSE HighestVoted(sources)

\* calculateConsensusSeverity
calculateConsensusSeverity(sources) ==
    IF Len(sources) = 0 THEN "unknown"
    ELSE LET vs == VotesFor(sources, "severe")
             vm == VotesFor(sources, "moderate")
         IN IF vs > 0 /\ HasHighReliabilitySevere(sources) THEN "severe"
            ELSE IF vs >= 15
                 THEN (IF HasHighReliabilityNonSevere(sources) /\ vm * 10 > vs * 8
                       THEN "moderate" ELSE "severe")
            ELSE IF vs > 0 /\ HasHighReliabilityNonSevere(sources) THEN "moderate"
            ELSE IF vs > 0 /\ vm > 0 THEN "moderate"
            ELSE HighestVoted(sources)

\* The merged evidence lists: at most one record per origin, in any order of
\* the origins that SourceNames lists them.
RECURSIVE ListOf(_, _)
ListOf(f, i) ==
    IF i > Len(SourceNames) THEN <<>>
    ELSE (IF f[SourceNames[i]] = "absent" THEN <<>>
          ELSE <<[name |-> SourceNames[i], severity |-> f[SourceNames[i]]]>>)
         \o ListOf(f, i + 1)

NameSet == {SourceNames[i] : i \in 1..Len(SourceNames)}

Consensus ==
    /\ consensus = "pending"
    /\ consensus' = calculateConsensusSeverity(evidence)
    /\ UNCHANGED evidence

-----------------------------------------------------------------------------
(* src/server/logic/standardize.ts : provider payloads to evidence records *)

\* InteractionSource.stats. present = FALSE is a record without a stats
\* object. beneficiaries = 0 is "undefined"; rates tells whether eventRate and
\* seriousEventRate are defined. sparse marks a stats object read back from
\* JSON, which has lost its undefined-valued keys.
NoStats ==
    [present |-> FALSE, totalEvents |-> 0, seriousEvents |-> 0,
     beneficiaries |-> 0, rates |-> FALSE, sparse |-> FALSE]

\* standardizeRxNorm: no record for a null payload; severity || "unknown"
standardizeRxNorm(result) ==
    IF ~result.found THEN <<>>
    ELSE <<[name |-> "RxNorm", severity |-> result.severity, stats |-> NoStats]>>

\* standardizeSuppAi: one record per reported interaction
standardizeSuppAi(result) ==
    IF ~result.found THEN <<>>
    ELSE [i \in 1..Len(result.interactions) |->
            [name |-> "SUPP.AI", severity |-> result.interactions[i], stats |-> NoStats]]

\* standardizeFdaAdverseEvents: null when totalEvents is 0; the exposure
\* denominator is min(A, B) when both are known, else the one known; the
\* severity comes from the serious-event count and is overridden by the
\* serious-event rate (> 0.01 severe, > 0.001 moderate) when a rate exists.
standardizeFdaAdverseEvents(result, beneficiariesA, beneficiariesB) ==
    IF result.totalEvents = 0 THEN <<>>
    ELSE LET beneficiaries ==
                 IF beneficiariesA # 0 /\ beneficiariesB # 0
                 THEN (IF beneficiariesA < beneficiariesB THEN beneficiariesA ELSE beneficiariesB)
                 ELSE IF beneficiariesA # 0 THEN beneficiariesA
                 ELSE beneficiariesB
             byCount ==
                 IF result.seriousEvents > 1000 THEN "severe"
                 ELSE IF result.seriousEvents > 100 THEN "moderate"
                 ELSE "mild"
             severity ==
                 IF beneficiaries > 0 /\ result.seriousEvents * 100 > beneficiaries THEN "severe"
                 ELSE IF beneficiaries > 0 /\ result.seriousEvents * 1000 > beneficiaries THEN "moderate"
                 ELSE byCount
         IN <<[name |-> "openFDA Adverse Events", severity |-> severity,
               stats |-> [present |-> TRUE, totalEvents |-> result.totalEvents,
                          seriousEvents |-> result.seriousEvents,
                          beneficiaries |-> beneficiaries, rates |-> beneficiaries > 0,
                          sparse |-> FALSE]]>>

-----------------------------------------------------------------------------
(* src/server/logic/merge/mergeSources.ts *)

\* severityOrder
\* A ranking with unknown and none exchanged.
severityOrderNoneLowest(sev) ==
    CASE sev = "severe" -> 4
      [] sev = "moderate" -> 3
      [] sev = "mild" -> 2
      [] sev = "unknown" -> 1
      [] OTHER -> 0

severityOrder(sev) ==
    CASE sev = "severe" -> 4
      [] sev = "moderate" -> 3
      [] sev = "mild" -> 2
      [] sev = "none" -> 1
      [] OTHER -> 0

\* Object.assign(mergedStats, source.stats): every key the source object owns
\* overwrites the target. An object built by standardize owns all its keys
\* (undefined-valued ones too); one read back from JSON owns only the defined.
AssignStats(target, s) ==
    IF ~s.present THEN target
    ELSE IF ~target.present THEN s
    ELSE IF s.sparse /\ s.beneficiaries = 0
         THEN [target EXCEPT !.totalEvents = s.totalEvents, !.seriousEvents = s.seriousEvents]
         ELSE [s EXCEPT !.sparse = target.sparse /\ s.sparse]

RECURSIVE MergeGroup(_, _)
\* The reduce calls over one group: acc keeps the first record of greatest
\* severityOrder and the stats assigned so far.
MergeGroup(acc, group) ==
    IF Len(group) = 0 THEN acc
    ELSE LET s == Head(group)
             sev == IF severityOrder(s.severity) > severityOrder(acc.severity)
                    THEN s.severity ELSE acc.severity
         IN MergeGroup([name |-> acc.name, severity |-> sev,
                        stats |-> AssignStats(acc.stats, s.stats)],
                       Tail(group))

RECURSIVE SelectNamed(_, _)
SelectNamed(sources, name) ==
    IF Len(sources) = 0 THEN <<>>
    ELSE (IF Head(sources).name = name THEN <<Head(sources)>> ELSE <<>>)
         \o SelectNamed(Tail(sources), name)

RECURSIVE SelectOthers(_, _)
SelectOthers(sources, name) ==
    IF Len(sources) = 0 THEN <<>>
    ELSE (IF Head(sources).name # name THEN <<Head(sources)>> ELSE <<>>)
         \o SelectOthers(Tail(sources), name)

\* A merge that returns its argument: every record kept
mergeSourcesKeepAll(sources) == sources

RECURSIVE mergeSources(_)
\* mergeSources: groups in the order their name first appears; a group of one
\* is pushed as it is, a larger group is merged into one record.
mergeSources(sources) ==
    IF Len(sources) = 0 THEN <<>>
    ELSE LET name == Head(sources).name
             group == SelectNamed(sources, name)
             one == IF Len(group) = 1 THEN group[1]
                    ELSE MergeGroup([name |-> name, severity |-> group[1].severity,
                                     stats |-> NoStats], group)
         IN <<one>> \o mergeSources(SelectOthers(sources, name))

\* the lists of up to n elements of S
SeqUpTo(S, n) == UNION {[1..k -> S] : k \in 0..n}

\* The origins and the evidence lists mergeSources is applied to: any list
\* of up to MaxMergeLen records, origins repeated or not
MergeNames == {"RxNorm", "openFDA Adverse Events", "AI Literature"}

MergeInputs ==
    SeqUpTo([name : MergeNames, severity : Severities, stats : {NoStats}], MaxMergeLen)

NotMerged == [done |-> FALSE, out |-> <<>>]

\* mergeSources is called on the list.
Merge ==
    /\ ~merged.done
    /\ merged' = [done |-> TRUE, out |-> mergeSources(mergeIn)]
    /\ UNCHANGED mergeIn

-----------------------------------------------------------------------------
(* src/server/logic/confidence/calculateConfidence.ts *)
(* Confidences are counted in units of 1/10000; an overall confidence is   *)
(* the exact fraction num/den of such units.                               *)

\* BASE_CONFIDENCE, in hundredths
BASE_CONFIDENCE(name) ==
    CASE name = "RxNorm" -> 85
      [] name = "FDA Label" -> 80
      [] name = "SUPP.AI" -> 70
      [] name = "openFDA Adverse Events" -> 65
      [] name = "AI Literature" -> 60
      [] OTHER -> 0

\* BASE_CONFIDENCE[name] || 0.5
BaseOrDefault(name) ==
    IF BASE_CONFIDENCE(name) # 0 THEN BASE_CONFIDENCE(name) ELSE 50

RECURSIVE Log10(_)
\* Math.log10 on the powers of ten (the exposure counts of the model are
\* chosen so that beneficiaries + 1 is a power of ten)
Log10(n) == IF n < 10 THEN 0 ELSE 1 + Log10(n \div 10)

Min(a, b) == IF a < b THEN a ELSE b
Max(a, b) == IF a > b THEN a ELSE b

\* A boost without the 0.15 ceiling.
BeneficiaryBoostUncapped(beneficiaries) == 1000 * Log10(beneficiaries + 1)

\* Math.min(Math.log10(beneficiaries + 1) / 10, 0.15)
BeneficiaryBoost(beneficiaries) == Min(1000 * Log10(beneficiaries + 1), 1500)

\* calculateConfidence
calculateConfidence(source) ==
    LET base == BaseOrDefault(source.name) * 100
        st == source.stats
        c1 == IF st.present /\ st.beneficiaries > 0
              THEN base + BeneficiaryBoost(st.beneficiaries) ELSE base
        c2 == IF st.present /\ st.rates THEN c1 + 500 ELSE c1
        c3 == IF ~st.present THEN c2
              ELSE IF st.totalEvents > 1000 THEN c2 + 500
              ELSE IF st.totalEvents > 100 THEN c2 + 200
              ELSE IF st.totalEvents < 10 THEN c2 - 500
              ELSE c2
        c4 == IF source.severity = "unknown" THEN (c3 * 7) \div 10 ELSE c3
    IN Max(0, Min(10000, c4))

RECURSIVE WeightedSum(_)
WeightedSum(sources) ==
    IF Len(sources) = 0 THEN 0
    ELSE calculateConfidence(Head(sources)) * BaseOrDefault(Head(sources).name)
         + WeightedSum(Tail(sources))

RECURSIVE TotalWeight(_)
TotalWeight(sources) ==
    IF Len(sources) = 0 THEN 0
    ELSE BaseOrDefault(Head(sources).name) + TotalWeight(Tail(sources))

\* A confidence that is a literal of the code, in units of 1/10000
Fixed(units) == [num |-> units, den |-> 1]

\* calculateOverallConfidence: 0 for an empty list, else the average of the
\* records' confidences weighted by their base confidence
calculateOverallConfidence(sources) ==
    IF Len(sources) = 0 THEN Fixed(0)
    ELSE [num |-> WeightedSum(sources), den |-> TotalWeight(sources)]

-----------------------------------------------------------------------------
(* checkInteractions : the computation of one pair on a cache miss         *)
(* A provider result is the ProviderResponse read at the Promise.all join: *)
(* error tells whether its error field is set, found whether data is not   *)
(* null.                                                                   *)

\* A standardize block that keeps no record at all once one provider of the
\* pair returned an error.
PairSourcesAllOrNothing(lookupA, lookupB, res) ==
    IF res.rx.error \/ res.supp.error \/ res.ae.error \/ res.ai.error
    THEN <<>>
    ELSE standardizeRxNorm(res.rx)
         \o standardizeSuppAi(res.supp)
         \o standardizeFdaAdverseEvents(res.ae, lookupA.cms_beneficiaries,
                                        lookupB.cms_beneficiaries)
         \o (IF res.ai.found
             THEN <<[name |-> "AI Literature", severity |-> res.ai.severity, stats |-> NoStats]>>
             ELSE <<>>)

\* The records pushed by the standardize block, in the order of the code:
\* RxNorm, SUPP.AI, adverse events, AI literature.
PairSources(lookupA, lookupB, res) ==
    standardizeRxNorm(res.rx)
    \o standardizeSuppAi(res.supp)
    \o (IF ~res.ae.error
        THEN standardizeFdaAdverseEvents(res.ae, lookupA.cms_beneficiaries,
                                         lookupB.cms_beneficiaries)
        ELSE <<>>)
    \o (IF res.ai.found
        THEN <<[name |-> "AI Literature", severity |-> res.ai.severity, stats |-> NoStats]>>
        ELSE <<>>)

\* A severity override that lifts to "none" only behind a successful RxNorm
\* check.
LiftSeverityNeedsRxNorm(severity, nMerged, f) ==
    IF f.rxnormAttempted /\ ~f.rxnormOk THEN "unknown"
    ELSE IF severity = "unknown" /\ nMerged = 0 /\ f.rxnormOk
         THEN "none"
    ELSE severity

\* The severity override: "unknown" when the RxNorm check was attempted and
\* failed; else "unknown" on an empty merged list is lifted to "none" when
\* every attempted provider returned without error.
LiftSeverity(severity, nMerged, f) ==
    IF f.rxnormAttempted /\ ~f.rxnormOk THEN "unknown"
    ELSE IF severity = "unknown" /\ nMerged = 0
              /\ (f.rxnormAttempted => f.rxnormOk)
              /\ (f.suppaiAttempted => f.suppaiOk)
              /\ f.adverseEventsOk
              /\ (f.aiAttempted => f.aiOk)
         THEN "none"
    ELSE severity

\* A confidence override that forgets the failed RxNorm check.
OverrideConfidenceNoRxRule(confidence, severity, nMerged, f) ==
    IF severity = "none" /\ nMerged = 0
    THEN LET n == (IF f.rxnormOk THEN 1 ELSE 0) + (IF f.suppaiOk THEN 1 ELSE 0)
                  + (IF f.adverseEventsOk THEN 1 ELSE 0) + (IF f.aiOk THEN 1 ELSE 0)
         IN IF n >= 3 THEN Fixed(7000)
            ELSE IF n >= 2 THEN Fixed(5000)
            ELSE IF n >= 1 THEN Fixed(3000)
            ELSE confidence
    ELSE confidence

\* A confidence override whose baseline stops at 0.5, as the comment of the
\* code has it ("0.5 for 2+").
OverrideConfidenceTwoTiers(confidence, severity, nMerged, f) ==
    IF f.rxnormAttempted /\ ~f.rxnormOk THEN Fixed(0)
    ELSE IF severity = "none" /\ nMerged = 0
    THEN LET n == (IF f.rxnormOk THEN 1 ELSE 0) + (IF f.suppaiOk THEN 1 ELSE 0)
                  + (IF f.adverseEventsOk THEN 1 ELSE 0) + (IF f.aiOk THEN 1 ELSE 0)
         IN IF n >= 2 THEN Fixed(5000)
            ELSE IF n >= 1 THEN Fixed(3000)
            ELSE confidence
    ELSE confidence

\* The confidence override: 0 when the RxNorm check was attempted and failed;
\* else the baseline 0.3 / 0.5 / 0.7 by the number of providers that ran
\* without error when the severity is "none" on an empty merged list.
OverrideConfidence(confidence, severity, nMerged, f) ==
    IF f.rxnormAttempted /\ ~f.rxnormOk THEN Fixed(0)
    ELSE IF severity = "none" /\ nMerged = 0
    THEN LET n == (IF f.rxnormOk THEN 1 ELSE 0) + (IF f.suppaiOk THEN 1 ELSE 0)
                  + (IF f.adverseEventsOk THEN 1 ELSE 0) + (IF f.aiOk THEN 1 ELSE 0)
         IN IF n >= 3 THEN Fixed(7000)
            ELSE IF n >= 2 THEN Fixed(5000)
            ELSE IF n >= 1 THEN Fixed(3000)
            ELSE confidence
    ELSE confidence

\* rxnormAttempted .. aiOk as the code computes them
ProviderFlags(lookupA, lookupB, includeAi, suppaiKey, res) ==
    LET rxnormAttempted == lookupA.rxnorm_rxcui /\ lookupB.rxnorm_rxcui
    IN [rxnormAttempted |-> rxnormAttempted,
        rxnormOk |-> rxnormAttempted /\ ~res.rx.error,
        suppaiAttempted |-> suppaiKey,
        suppaiOk |-> suppaiKey /\ ~res.supp.error,
        adverseEventsOk |-> ~res.ae.error,
        aiAttempted |-> includeAi,
        aiOk |-> includeAi /\ ~res.ai.error]

\* A count of the primary providers that were attempted, successful or not.
primarySourcesAttemptedAtAll(f) ==
    (IF f.rxnormAttempted THEN 1 ELSE 0) + 1 + (IF f.suppaiAttempted THEN 1 ELSE 0)

\* primarySourcesAttempted: [rxnormOk, adverseEventsOk, suppaiOk]
\* .filter(Boolean).length, the primary providers that ran without error
primarySourcesAttempted(f) ==
    (IF f.rxnormOk THEN 1 ELSE 0) + (IF f.adverseEventsOk THEN 1 ELSE 0)
    + (IF f.suppaiOk THEN 1 ELSE 0)

\* The InteractionResult built from the four provider results.
PairReport(itemA, itemB, lookupA, lookupB, includeAi, suppaiKey, res) ==
    LET f == ProviderFlags(lookupA, lookupB, includeAi, suppaiKey, res)
        mergedSources == mergeSources(PairSources(lookupA, lookupB, res))
        n == Len(mergedSources)
        severity == LiftSeverity(calculateConsensusSeverity(mergedSources), n, f)
        confidence == OverrideConfidence(calculateOverallConfidence(mergedSources),
                                         severity, n, f)
    IN [itemA |-> itemA,
        itemB |-> itemB,
        severity |-> severity,
        confidence |-> confidence,
        sources |-> mergedSources,
        summary |-> IF n > 0 THEN "first_source"
                    ELSE IF primarySourcesAttempted(f) > 0 THEN "no_significant_interactions"
                    ELSE "limited_evidence",
        keyNotes |-> Min(n, 3) + (IF f.rxnormAttempted /\ ~f.rxnormOk THEN 1 ELSE 0)]

-----------------------------------------------------------------------------
(* The results the providers of a pair can hand to the join *)

\* Promise.resolve({ data: null }) for a provider that is not called
Skipped == [error |-> FALSE, found |-> FALSE, severity |-> "unknown"]

\* { data: null, error: "..." }
Failed == [error |-> TRUE, found |-> FALSE, severity |-> "unknown"]

\* { data: null } from a provider that looked and found nothing
Nothing == [error |-> FALSE, found |-> FALSE, severity |-> "unknown"]

\* rxnorm getInteractions: an error, nothing (404 or no described
\* interaction for the pair), or the described interaction with its severity
\* mapped to severe / moderate / mild / unknown
RxNormResults ==
    {Failed, Nothing}
    \cup {[error |-> FALSE, found |-> TRUE, severity |-> sv] :
            sv \in {"severe", "moderate", "mild", "unknown"}}

\* suppai getInteractions: { data: null, error } (no SUPPAI_API_KEY, an HTTP
\* status that is not ok, a timeout or transport error)
SuppAiFailed == [error |-> TRUE, found |-> FALSE, interactions |-> <<>>]

\* suppai getInteractions with a key: an error, null, or the list of the
\* reported interactions' severities
SuppAiResults ==
    {SuppAiFailed, [error |-> FALSE, found |-> FALSE, interactions |-> <<>>]}
    \cup {[error |-> FALSE, found |-> TRUE, interactions |-> l] :
            l \in SeqUpTo({"severe", "moderate", "mild", "unknown"}, MaxSuppInteractions)}

AdverseEventsFailed == [error |-> TRUE, totalEvents |-> 0, seriousEvents |-> 0]

\* fetchAdverseEvents: an error, or the counts of the reports found
AdverseEventsResults ==
    {AdverseEventsFailed}
    \cup {[error |-> FALSE, totalEvents |-> c[1], seriousEvents |-> c[2]] : c \in EventCounts}

\* analyzeAiLiterature with a key: an error, or the source record built from
\* the parsed answer (parsed.severity || "unknown", not validated)
AiResults ==
    {Failed}
    \cup {[error |-> FALSE, found |-> TRUE, severity |-> sv] : sv \in Severities}

\* The result tuples the join of a pair can read
PairResults(lookupA, lookupB, includeAi, suppaiKey, openaiKey) ==
    [rx : IF lookupA.rxnorm_rxcui /\ lookupB.rxnorm_rxcui THEN RxNormResults ELSE {Skipped},
     supp : IF suppaiKey THEN SuppAiResults ELSE {SuppAiFailed},
     ae : AdverseEventsResults,
     ai : IF ~includeAi THEN {Skipped} ELSE IF openaiKey THEN AiResults ELSE {Failed}]

\* The provider calls of a pair that go to the network
\* (fetchPubMedEvidence resolves without I/O, so analyzeAiLiterature is
\* called before any of the other calls can settle)
PairCalls(lookupA, lookupB, includeAi, suppaiKey, openaiKey) ==
    (IF lookupA.rxnorm_rxcui /\ lookupB.rxnorm_rxcui THEN 1 ELSE 0)
    + (IF suppaiKey THEN 1 ELSE 0) + 1
    + (IF includeAi /\ openaiKey THEN 1 ELSE 0)

NoResults == [rx |-> Skipped, supp |-> SuppAiFailed, ae |-> AdverseEventsFailed, ai |-> Skipped]

NoReport ==
    [itemA |-> "", itemB |-> "", severity |-> "pending", confidence |-> Fixed(0),
     sources |-> <<>>, summary |-> "", keyNotes |-> 0]

\* JSON.stringify / parse of a report (the result_json column): a stats
\* object loses its undefined-valued keys
JsonSource(src) ==
    IF src.stats.present THEN [src EXCEPT !.stats.sparse = TRUE] ELSE src

Json(report) ==
    [report EXCEPT !.sources = [i \in 1..Len(report.sources) |-> JsonSource(report.sources[i])]]

-----------------------------------------------------------------------------
(* One pair task of checkInteractions after its cache miss *)

\* The state of the pair variables outside a pair task
IdlePair ==
    [lookupA |-> [rxnorm_rxcui |-> FALSE, cms_beneficiaries |-> 0],
     lookupB |-> [rxnorm_rxcui |-> FALSE, cms_beneficiaries |-> 0],
     includeAi |-> FALSE, suppaiKey |-> FALSE, openaiKey |-> FALSE]

Lookups ==
    [rxnorm_rxcui : BOOLEAN, cms_beneficiaries : {0} \cup ExposureCounts]

\* One provider call of the pair settles.
PairCallSettles ==
    /\ pairPending > 0
    /\ pairPending' = pairPending - 1
    /\ UNCHANGED <<pairIn, pairPc, pairRes, pairOut, pairStored>>

\* The continuation of await Promise.all(providerPromises): the four results
\* are read, the report is built and setPairInteractionCache is called.
PairJoin ==
    /\ pairPc = "calls"
    /\ pairPending = 0
    /\ \E res \in PairResults(pairIn.lookupA, pairIn.lookupB, pairIn.includeAi,
                              pairIn.suppaiKey, pairIn.openaiKey) :
         /\ pairRes' = res
         /\ pairOut' = PairReport("a", "b", pairIn.lookupA, pairIn.lookupB,
                                  pairIn.includeAi, pairIn.suppaiKey, res)
    /\ pairPc' = "cacheWrite"
    /\ UNCHANGED <<pairIn, pairPending, pairStored>>

\* The continuation of await setPairInteractionCache: the row holds the
\* report as JSON; pairResults.set(pairKey, result).
PairStore ==
    /\ pairPc = "cacheWrite"
    /\ pairStored' = Json(pairOut)
    /\ pairPc' = "done"
    /\ UNCHANGED <<pairIn, pairPending, pairRes, pairOut>>

-----------------------------------------------------------------------------
(* src/server/constants.ts, src/server/utils/normalize.ts *)

MAX_CONCURRENT_UPSTREAM_CALLS == 6
MAX_CONCURRENT_PAIR_COMPUTATIONS == 3

\* The calc_version strings of two successive deployments (CALC_VERSION)
Versions == {"v1.0.0", "v1.0.1"}

\* Canonical item values
Names == {"a", "b", "c"}

\* The order [a, b].sort() puts the canonical values in
Rank(name) == CASE name = "a" -> 1 [] name = "b" -> 2 [] OTHER -> 3

\* generatePairKey: the two values sorted (the model keeps the sorted pair,
\* the code joins it with "::")
generatePairKey(x, y) == IF Rank(x) <= Rank(y) THEN <<x, y>> ELSE <<y, x>>

PairKeys == {generatePairKey(x, y) : x \in Names, y \in Names}

ItemIds == 1..MaxItems
PairIds == 1..((MaxItems * (MaxItems - 1)) \div 2)

RECURSIVE PairsFrom(_, _, _)
PairsFrom(i, j, n) ==
    IF i >= n THEN <<>>
    ELSE IF j > n THEN PairsFrom(i + 1, i + 2, n)
    ELSE <<<<i, j>>>> \o PairsFrom(i, j + 1, n)

\* generatePairs: the index pairs i < j in the order of the two loops
generatePairs(items) == PairsFrom(1, 2, Len(items))

RECURSIVE TriplesFrom(_, _, _, _)
TriplesFrom(i, j, k, n) ==
    IF i > n - 2 THEN <<>>
    ELSE IF j > n - 1 THEN TriplesFrom(i + 1, i + 2, i + 3, n)
    ELSE IF k > n THEN TriplesFrom(i, j + 1, j + 2, n)
    ELSE <<<<i, j, k>>>> \o TriplesFrom(i, j, k + 1, n)

\* generateTriples: the index triples i < j < k, none below three items
generateTriples(items) ==
    IF Len(items) < 3 THEN <<>> ELSE TriplesFrom(1, 2, 3, Len(items))

Range(f) == {f[i] : i \in DOMAIN f}

-----------------------------------------------------------------------------
(* The upstream services as a request sees them *)

\* The endpoints a request calls, by the names of its provider-status trace
Endpoints ==
    {"rxnorm-lookup", "suppai-lookup", "fda-label", "rxnorm-interactions",
     "suppai-interactions", "fda-adverse-events", "fda-adverse-events-single",
     "ai-literature"}

\* The sets of endpoints that answer with an error (HTTP status, timeout or
\* transport error) during one request: none, any single one, or all
Outages == {{}} \cup {{e} : e \in Endpoints} \cup {Endpoints}

\* What the services know: "rich" holds interactions, "quiet" holds none
Worlds == {"rich", "quiet"}

\* lookupRxCUI finds an identifier
RxcuiOf(w, name) == name \in {"a", "b"}

\* lookupSuppAiId finds an identifier
SuppAiIdOf(w, name) == name = "c"

\* fetchFdaLabel finds warnings
LabelOf(w, name) == w = "rich" /\ name = "a"

\* cms_usage_cache.beneficiaries (0: no row); the table is loaded from
\* outside and never written by a request
CmsUsage(name) == CASE name = "a" -> 99999 [] name = "b" -> 9 [] OTHER -> 0

RxNormFact(w, key) ==
    IF w = "rich" /\ key = <<"a", "b">>
    THEN [error |-> FALSE, found |-> TRUE, severity |-> "severe"]
    ELSE Nothing

SuppAiFact(w, key) ==
    IF w = "rich" /\ key = <<"a", "c">>
    THEN [error |-> FALSE, found |-> TRUE, interactions |-> <<"mild", "moderate">>]
    ELSE IF w = "rich" /\ key = <<"b", "c">>
    THEN [error |-> FALSE, found |-> TRUE, interactions |-> <<>>]
    ELSE [error |-> FALSE, found |-> FALSE, interactions |-> <<>>]

AdverseEventsFact(w, key) ==
    IF w = "rich" /\ key = <<"a", "b">>
    THEN [error |-> FALSE, totalEvents |-> 500, seriousEvents |-> 150]
    ELSE IF w = "rich" /\ key \in {<<"a", "c">>, <<"a", "a">>}
    THEN [error |-> FALSE, totalEvents |-> 5000, seriousEvents |-> 1500]
    ELSE [error |-> FALSE, totalEvents |-> 0, seriousEvents |-> 0]

AiFact(w, key) ==
    [error |-> FALSE, found |-> TRUE,
     severity |-> IF w = "quiet" THEN "none"
                  ELSE IF key = <<"a", "b">> THEN "severe"
                  ELSE IF key = <<"b", "c">> THEN "unknown"
                  ELSE "mild"]

SingleEventsFact(w, name) ==
    IF w = "rich" /\ name = "a"
    THEN [error |-> FALSE, totalEvents |-> 5000, seriousEvents |-> 1500]
    ELSE IF w = "rich" /\ name = "b"
    THEN [error |-> FALSE, totalEvents |-> 5, seriousEvents |-> 1]
    ELSE [error |-> FALSE, totalEvents |-> 0, seriousEvents |-> 0]

-----------------------------------------------------------------------------
(* src/server/db/cache.ts *)

NoRow ==
    [present |-> FALSE, stale |-> FALSE, rxnorm_rxcui |-> FALSE,
     suppai_id |-> FALSE, fda_label_warnings |-> FALSE]

\* getMedLookupCache: null under forceRefresh, for a missing row and for a
\* row older than 24 hours whose rxnorm_rxcui is null
getMedLookupCache(row, forceRefresh) ==
    IF forceRefresh \/ ~row.present \/ (~row.rxnorm_rxcui /\ row.stale)
    THEN NoRow ELSE row

\* setMedLookupCache: upsert of the three lookups, updated_at = NOW()
setMedLookupCache(got) ==
    [present |-> TRUE, stale |-> FALSE, rxnorm_rxcui |-> got.rxnorm_rxcui,
     suppai_id |-> got.suppai_id, fda_label_warnings |-> got.fda_label_warnings]

NoEntry == [present |-> FALSE, calc_version |-> "v1.0.0", result_json |-> NoReport]

\* A getPairInteractionCache whose query leaves out calc_version.
getPairInteractionCacheAnyVersion(entry, forceRefresh, version) ==
    IF forceRefresh \/ ~entry.present THEN NoEntry ELSE entry

\* getPairInteractionCache: null under forceRefresh; else the row of the
\* pair key whose calc_version is CALC_VERSION
getPairInteractionCache(entry, forceRefresh, version) ==
    IF forceRefresh \/ ~entry.present \/ entry.calc_version # version
    THEN NoEntry ELSE entry

\* A setPairInteractionCache that stores no report of severity unknown.
setPairInteractionCacheUnlessUnknown(result, version) ==
    IF result.severity = "unknown" THEN NoEntry
    ELSE [present |-> TRUE, calc_version |-> version, result_json |-> Json(result)]

\* setPairInteractionCache: upsert on pair_key of JSON.stringify(result)
\* and CALC_VERSION
setPairInteractionCache(result, version) ==
    [present |-> TRUE, calc_version |-> version, result_json |-> Json(result)]

-----------------------------------------------------------------------------
(* checkInteractions : one request after the other *)

NoLookup ==
    [set |-> FALSE, rxnorm_rxcui |-> FALSE, suppai_id |-> FALSE,
     fda_label_warnings |-> FALSE, cms_beneficiaries |-> 0]

\* The lookup functions an item task calls on its miss path
ItemProviders == {"rxnorm-lookup", "suppai-lookup", "fda-label"}

\* pc: the await the task is at; net, db: pending network calls and a pending
\* read of the exposure table; got: the lookups read at the join; called:
\* the lookup functions called; cached: the provider statuses of the item
\* that trackProviderStatus marks cached: true; errors: the error strings of
\* the provider statuses trackProviderStatus records for the task with
\* options.debug
IdleItemTask == [pc |-> "idle", net |-> 0, db |-> FALSE, got |-> NoLookup, called |-> {},
                 cached |-> {}, errors |-> {}]
IdlePairTask == [pc |-> "idle", net |-> 0, out |-> NoReport, hit |-> FALSE,
                 hitVersion |-> "v1.0.0", errors |-> {}]
IdleSingleTask == [pc |-> "idle", sources |-> <<>>]
\* results.singles, results.pairs, results.triples and meta.calcVersion of
\* the InteractionCheckResponse; status and error of the HTTP response POST
\* wraps it in (status 0 while the request is being served); itemCount is
\* body.items.length of the request, as POST logs it on arrival.
NoResponse == [returned |-> FALSE, singles |-> <<>>, pairs |-> <<>>, triples |-> <<>>,
               calcVersion |-> "v1.0.0", status |-> 0, error |-> "", itemCount |-> 0]
NoPairResults == [order |-> <<>>, get |-> [k \in PairKeys |-> NoReport]]

\* The requests of the model: every option setting on one and two items,
\* and three items (one list with a repeated value) under chosen options
Requests ==
    [items : {<<"a">>, <<"a", "b">>, <<"a", "c">>}, includeAi : BOOLEAN,
     includeCms : BOOLEAN, forceRefresh : {FALSE}]
    \cup {[items |-> <<"a", "b", "c">>, includeAi |-> TRUE, includeCms |-> TRUE,
            forceRefresh |-> FALSE],
           [items |-> <<"a", "b", "c">>, includeAi |-> FALSE, includeCms |-> FALSE,
            forceRefresh |-> TRUE],
           [items |-> <<"a", "a", "b">>, includeAi |-> FALSE, includeCms |-> FALSE,
            forceRefresh |-> FALSE]}

\* Item lists POST answers with an error: none, and one item too many
InvalidItemLists == {<<>>, [i \in 1..MaxRejectedItems |-> "a"]}

\* normalizeInputItems letting one item more through
normalizeInputItemsOneMore(items) ==
    IF Len(items) = 0 THEN "At least one item is required"
    ELSE IF Len(items) > 11 THEN "Maximum 10 items allowed per request"
    ELSE ""

\* normalizeInputItems: the message of the Error it throws, "" when it
\* returns the normalized items
normalizeInputItems(items) ==
    IF Len(items) = 0 THEN "At least one item is required"
    ELSE IF Len(items) > 10 THEN "Maximum 10 items allowed per request"
    ELSE ""

\* POST up to its call of checkInteractions and the catch around it: the
\* status and the error of the response it returns without serving the
\* request, status 0 when the request is served. An Error whose message
\* includes "Maximum" or "required" is answered with status 400.
PostValidation(items) ==
    IF Len(items) = 0
    THEN [status |-> 400, error |-> "Invalid request: 'items' array is required"]
    ELSE [status |-> IF normalizeInputItems(items) = "" THEN 0 ELSE 400,
          error |-> normalizeInputItems(items)]

\* Promise.all over the tasks 1..n: resolved when every one has returned
AnySettled(tasks, n) == \E j \in 1..n : tasks[j].pc = "done"

AllSettled(tasks, n) == \A j \in 1..n : tasks[j].pc = "done"

RECURSIVE LimitAll(_, _, _, _)
\* limiter(fn) called for the tasks t..n in turn
LimitAll(conc, lim, t, n) ==
    IF t > n THEN lim
    ELSE LET r == ProcessQueue(conc, lim.active, Append(lim.queue, t))
         IN LimitAll(conc, [active |-> r.active, queue |-> r.queue,
                            started |-> lim.started \o r.started], t + 1, n)

NumItems == Len(request.items)

PairKeyOf(p) ==
    LET ij == generatePairs(request.items)[p]
    IN generatePairKey(request.items[ij[1]], request.items[ij[2]])

\* The single phase begins: every item's async callback runs up to its
\* await fetchSingleDrugAdverseEvents, outside any limiter.
SinglesStarted == [i \in ItemIds |-> IF i <= NumItems THEN [pc |-> "call", sources |-> <<>>]
                                     ELSE IdleSingleTask]

\* The pair phase begins: generatePairs, then every pair task is handed to
\* the pair limiter; a started task runs up to its await of the cache read.
PairsSubmitted ==
    LET n == Len(generatePairs(request.items))
        lim == LimitAll(MAX_CONCURRENT_PAIR_COMPUTATIONS,
                        [active |-> 0, queue |-> <<>>, started |-> <<>>], 1, n)
    IN [limiter |-> [active |-> lim.active, queue |-> lim.queue],
        tasks |-> [p \in PairIds |->
                     IF p \in Range(lim.started) THEN [IdlePairTask EXCEPT !.pc = "cacheRead"]
                     ELSE IF p <= n THEN [IdlePairTask EXCEPT !.pc = "queued"]
                     ELSE IdlePairTask]]

\* An item task has returned (it holds the tasks with that one "done"): the
\* limiter's .finally gives the slot to the oldest queued task, and when
\* Promise.all over the item tasks resolves the pair phase begins (the
\* single phase when there is no pair).
AfterItemTask(it) ==
    LET r == ProcessQueue(MAX_CONCURRENT_UPSTREAM_CALLS,
                          upstreamLimiter.active - 1, upstreamLimiter.queue)
        it2 == [j \in ItemIds |-> IF j \in Range(r.started)
                                   THEN [it[j] EXCEPT !.pc = "cacheRead"] ELSE it[j]]
    IN /\ itemTask' = it2
       /\ upstreamLimiter' = [active |-> r.active, queue |-> r.queue]
       /\ IF ~AllSettled(it2, NumItems)
          THEN UNCHANGED <<phase, pairTask, pairLimiter, singleTask, inFlight>>
          ELSE IF Len(generatePairs(request.items)) = 0
          THEN /\ phase' = "singles"
               /\ singleTask' = SinglesStarted
               /\ inFlight' = inFlight + NumItems
               /\ UNCHANGED <<pairTask, pairLimiter>>
          ELSE /\ phase' = "pairs"
               /\ pairTask' = PairsSubmitted.tasks
               /\ pairLimiter' = PairsSubmitted.limiter
               /\ UNCHANGED <<singleTask, inFlight>>

\* A pair task has returned: the slot goes to the oldest queued pair task,
\* and when Promise.all over the pair tasks resolves the single phase begins.
AfterPairTask(pt) ==
    LET r == ProcessQueue(MAX_CONCURRENT_PAIR_COMPUTATIONS,
                          pairLimiter.active - 1, pairLimiter.queue)
        pt2 == [q \in PairIds |-> IF q \in Range(r.started)
                                  THEN [pt[q] EXCEPT !.pc = "cacheRead"] ELSE pt[q]]
    IN /\ pairTask' = pt2
       /\ pairLimiter' = [active |-> r.active, queue |-> r.queue]
       /\ IF AllSettled(pt2, Len(generatePairs(request.items)))
          THEN /\ phase' = "singles"
               /\ singleTask' = SinglesStarted
               /\ inFlight' = inFlight + NumItems
          ELSE UNCHANGED <<phase, singleTask, inFlight>>

\* checkInteractions is entered with request rq: normalizeInputItems, the
\* two limiters are created and every item task is handed to the upstream
\* limiter; a started task runs up to its await of the item-cache read.
Enter(rq, w, d) ==
    LET n == Len(rq.items)
        lim == LimitAll(MAX_CONCURRENT_UPSTREAM_CALLS,
                        [active |-> 0, queue |-> <<>>, started |-> <<>>], 1, n)
    IN /\ request' = rq
       /\ world' = w
       /\ down' = d
       /\ upstreamLimiter' = [active |-> lim.active, queue |-> lim.queue]
       /\ itemTask' = [i \in ItemIds |->
               IF i \in Range(lim.started) THEN [IdleItemTask EXCEPT !.pc = "cacheRead"]
               ELSE IF i <= n THEN [IdleItemTask EXCEPT !.pc = "queued"]
               ELSE IdleItemTask]
       /\ phase' = "items"
       /\ pairLimiter' = [active |-> 0, queue |-> <<>>]
       /\ medLookups' = [nm \in Names |-> NoLookup]
       /\ pairTask' = [p \in PairIds |-> IdlePairTask]
       /\ pairResults' = NoPairResults
       /\ singleTask' = [i \in ItemIds |-> IdleSingleTask]
       /\ response' = [NoResponse EXCEPT !.itemCount = n]
       /\ previous' = IF response.returned THEN response ELSE previous
       /\ UNCHANGED <<env, medCache, pairCache, calcVersion, inFlight, requestsDone>>

\* The first request arrives.
StartRequest ==
    /\ phase = "idle"
    /\ \E rq \in Requests \cup [items : InvalidItemLists, includeAi : {FALSE},
                                includeCms : {FALSE}, forceRefresh : {FALSE}],
          w \in Worlds, d \in Outages :
         /\ PostValidation(rq.items).status = 0
         /\ Enter(rq, w, d)

\* A request POST answers with status 400 arrives, before the first request
\* or between two requests: checkInteractions is not called, or throws in
\* normalizeInputItems before it does anything else.
Reject ==
    /\ phase \in {"idle", "done"}
    /\ requestsDone < MaxRequests
    /\ Len(request.items) <= MaxReissueItems
    /\ \E items \in InvalidItemLists \cup {rq.items : rq \in Requests} :
         /\ PostValidation(items).status = 400
         /\ response' = [NoResponse EXCEPT !.status = 400,
                                           !.error = PostValidation(items).error,
                                           !.itemCount = Len(items)]
    /\ previous' = IF response.returned THEN response ELSE previous
    /\ UNCHANGED <<request, env, world, down, phase, upstreamLimiter, pairLimiter,
                   itemTask, medLookups, pairTask, pairResults, singleTask,
                   medCache, pairCache, calcVersion, inFlight, requestsDone>>

\* The same items are asked about again, with or without forceRefresh, while
\* the services may know something else and be all up or all down.
Reissue ==
    /\ phase = "done"
    /\ requestsDone < MaxRequests
    /\ Len(request.items) <= MaxReissueItems
    /\ \E fr \in BOOLEAN, w \in Worlds, d \in {{}, Endpoints} :
         Enter([request EXCEPT !.forceRefresh = fr], w, d)

\* The continuation of await getMedLookupCache in an item task. On a hit that
\* needs no refresh the cached lookups are put in medLookups and, with
\* includeCms, the exposure cache is read next; otherwise the task returns.
\* A row with a stale negative field takes the miss path as well: the block
\* that would refresh only that field sits inside the hit branch, whose
\* condition excludes it. On a miss the lookups are fanned out (all three
\* lookup functions are called): lookupRxCUI and fetchFdaLabel go to
\* the network, lookupSuppAiId does when SUPPAI_API_KEY is set, and
\* fetchCmsPartDUsage (with includeCms) reads the exposure table.
ItemCacheRead(i) ==
    /\ itemTask[i].pc = "cacheRead"
    /\ LET name == request.items[i]
           cached == getMedLookupCache(medCache[name], request.forceRefresh)
           needsRxNormRefresh == cached.present /\ ~cached.rxnorm_rxcui /\ cached.stale
           needsSuppAiRefresh == cached.present /\ ~cached.suppai_id /\ cached.stale
           calls == 2 + (IF env.suppaiKey THEN 1 ELSE 0)
       IN IF cached.present /\ ~needsRxNormRefresh /\ ~needsSuppAiRefresh
          THEN /\ medLookups' = [medLookups EXCEPT ![name] =
                     [set |-> TRUE, rxnorm_rxcui |-> cached.rxnorm_rxcui,
                      suppai_id |-> cached.suppai_id,
                      fda_label_warnings |-> cached.fda_label_warnings,
                      cms_beneficiaries |-> 0]]
               /\ IF request.includeCms
                  THEN /\ itemTask' = [itemTask EXCEPT ![i].pc = "cmsRead",
                                                         ![i].cached = ItemProviders]
                       /\ UNCHANGED <<upstreamLimiter, phase, pairTask, pairLimiter,
                                      singleTask, inFlight>>
                  ELSE AfterItemTask([itemTask EXCEPT ![i].pc = "done",
                                                      ![i].cached = ItemProviders])
          ELSE /\ itemTask' = [itemTask EXCEPT ![i] =
                     [pc |-> "calls", net |-> calls, db |-> request.includeCms,
                      got |-> NoLookup, called |-> ItemProviders, cached |-> {},
                      errors |-> {}]]
               /\ inFlight' = inFlight + calls
               /\ UNCHANGED <<medLookups, upstreamLimiter, phase, pairTask, pairLimiter,
                              singleTask>>
    /\ UNCHANGED <<request, env, world, down, pairResults, response, medCache,
                   pairCache, calcVersion, requestsDone>>

\* The continuation of await getCmsUsageCache on the hit path: a row with
\* beneficiaries is added to the item's lookup and the task returns; else
\* fetchCmsPartDUsage is awaited.
ItemCmsRead(i) ==
    /\ itemTask[i].pc = "cmsRead"
    /\ LET name == request.items[i]
       IN IF ~request.forceRefresh /\ CmsUsage(name) > 0
          THEN /\ medLookups' = [medLookups EXCEPT ![name].cms_beneficiaries = CmsUsage(name)]
               /\ AfterItemTask([itemTask EXCEPT ![i].pc = "done",
                                                  ![i].cached = @ \cup {"cms-partd"}])
          ELSE /\ itemTask' = [itemTask EXCEPT ![i].pc = "cmsFetch"]
               /\ UNCHANGED <<medLookups, upstreamLimiter, phase, pairTask, pairLimiter,
                              singleTask, inFlight>>
    /\ UNCHANGED <<request, env, world, down, pairResults, response, medCache,
                   pairCache, calcVersion, requestsDone>>

\* The continuation of await fetchCmsPartDUsage on the hit path: the stub
\* returns data only from a row with beneficiaries; the task returns.
ItemCmsFetch(i) ==
    /\ itemTask[i].pc = "cmsFetch"
    /\ LET name == request.items[i]
       IN /\ medLookups' = IF CmsUsage(name) > 0
                           THEN [medLookups EXCEPT ![name].cms_beneficiaries = CmsUsage(name)]
                           ELSE medLookups
          /\ AfterItemTask([itemTask EXCEPT
                 ![i].pc = "done",
                 ![i].cached = IF CmsUsage(name) > 0 THEN @ \cup {"cms-partd"} ELSE @])
    /\ UNCHANGED <<request, env, world, down, pairResults, response, medCache,
                   pairCache, calcVersion, requestsDone>>

\* One of the lookups of an item task settles while others are pending.
ItemCallSettles(i) ==
    /\ itemTask[i].pc = "calls"
    /\ itemTask[i].net + (IF itemTask[i].db THEN 1 ELSE 0) > 1
    /\ \/ /\ itemTask[i].net > 0
          /\ itemTask' = [itemTask EXCEPT ![i].net = @ - 1]
          /\ inFlight' = inFlight - 1
       \/ /\ itemTask[i].db
          /\ itemTask' = [itemTask EXCEPT ![i].db = FALSE]
          /\ UNCHANGED inFlight
    /\ UNCHANGED <<request, env, world, down, phase, upstreamLimiter, pairLimiter,
                   medLookups, pairTask, pairResults, singleTask, response, medCache,
                   pairCache, calcVersion, requestsDone>>

\* What the lookups of an item return: null from an endpoint that is down
\* or knows nothing (rxnormResult.data?.rxcui || null, and so on)
ItemLookups(name) ==
    [set |-> TRUE,
     rxnorm_rxcui |-> "rxnorm-lookup" \notin down /\ RxcuiOf(world, name),
     suppai_id |-> env.suppaiKey /\ "suppai-lookup" \notin down /\ SuppAiIdOf(world, name),
     fda_label_warnings |-> "fda-label" \notin down /\ LabelOf(world, name),
     cms_beneficiaries |-> IF request.includeCms THEN CmsUsage(name) ELSE 0]

\* An error string is the sequence of its words.
\* "SUPPAI_API_KEY not configured", "OPENAI_API_KEY not configured"
NotConfigured(variable) == <<variable, "not", "configured">>

\* `HTTP ${response.status}` of a status that is not ok
HttpError == <<"HTTP", "503">>

\* The error fields of the lookup results of an item: lookupSuppAiId
\* without SUPPAI_API_KEY, and the lookups whose endpoint is down
ItemErrors ==
    (IF ~env.suppaiKey THEN {NotConfigured("SUPPAI_API_KEY")} ELSE {})
    \cup (IF \/ "rxnorm-lookup" \in down
              \/ "fda-label" \in down
              \/ (env.suppaiKey /\ "suppai-lookup" \in down)
           THEN {HttpError} ELSE {})

\* The error fields of the provider results of a pair: getInteractions of
\* suppai without SUPPAI_API_KEY, analyzeAiLiterature without
\* OPENAI_API_KEY, and the providers called whose endpoint is down
PairErrors(lookupA, lookupB) ==
    (IF ~env.suppaiKey THEN {NotConfigured("SUPPAI_API_KEY")} ELSE {})
    \cup (IF request.includeAi /\ ~env.openaiKey
           THEN {NotConfigured("OPENAI_API_KEY")} ELSE {})
    \cup (IF \/ (lookupA.rxnorm_rxcui /\ lookupB.rxnorm_rxcui
                  /\ "rxnorm-interactions" \in down)
              \/ (env.suppaiKey /\ "suppai-interactions" \in down)
              \/ "fda-adverse-events" \in down
           THEN {HttpError} ELSE {})

\* The last lookup of an item task settles: the continuation of await
\* Promise.all(lookupPromises) reads the results and calls setMedLookupCache.
\* fetchCmsPartDUsage reads cms_usage_cache whatever forceRefresh is and
\* answers cached: true from a row with beneficiaries.
ItemJoin(i) ==
    /\ itemTask[i].pc = "calls"
    /\ itemTask[i].net + (IF itemTask[i].db THEN 1 ELSE 0) = 1
    /\ itemTask' = [itemTask EXCEPT ![i] =
           [pc |-> "cacheWrite", net |-> 0, db |-> FALSE,
            got |-> ItemLookups(request.items[i]), called |-> itemTask[i].called,
            cached |-> IF request.includeCms /\ CmsUsage(request.items[i]) > 0
                       THEN {"cms-partd"} ELSE {},
            errors |-> ItemErrors]]
    /\ inFlight' = inFlight - itemTask[i].net
    /\ UNCHANGED <<request, env, world, down, phase, upstreamLimiter, pairLimiter,
                   medLookups, pairTask, pairResults, singleTask, response, medCache,
                   pairCache, calcVersion, requestsDone>>

\* The continuation of await setMedLookupCache: the row is written, the
\* lookups are put in medLookups and the task returns.
ItemCacheWrite(i) ==
    /\ itemTask[i].pc = "cacheWrite"
    /\ LET name == request.items[i]
       IN /\ medCache' = [medCache EXCEPT ![name] = setMedLookupCache(itemTask[i].got)]
          /\ medLookups' = [medLookups EXCEPT ![name] = itemTask[i].got]
    /\ AfterItemTask([itemTask EXCEPT ![i].pc = "done"])
    /\ UNCHANGED <<request, env, world, down, pairResults, response, pairCache,
                   calcVersion, requestsDone>>

\* pairResults.set(key, result)
MapSet(m, key, result) ==
    [order |-> IF key \in Range(m.order) THEN m.order ELSE Append(m.order, key),
     get |-> [m.get EXCEPT ![key] = result]]

\* pair.a and pair.b of the p-th generated pair, and their lookups
ItemA(p) == request.items[generatePairs(request.items)[p][1]]
ItemB(p) == request.items[generatePairs(request.items)[p][2]]
LookupA(p) == medLookups[ItemA(p)]
LookupB(p) == medLookups[ItemB(p)]

\* The continuation of await getPairInteractionCache in a pair task. On a hit
\* the cached report becomes the pair's result and the task returns. On a
\* miss the provider calls are fanned out.
PairTaskCacheRead(p) ==
    /\ pairTask[p].pc = "cacheRead"
    /\ LET key == PairKeyOf(p)
           cached == getPairInteractionCache(pairCache[key], request.forceRefresh, calcVersion)
           calls == PairCalls(LookupA(p), LookupB(p), request.includeAi,
                              env.suppaiKey, env.openaiKey)
       IN IF cached.present
          THEN /\ pairResults' = MapSet(pairResults, key, cached.result_json)
               /\ AfterPairTask([pairTask EXCEPT ![p] =
                      [pc |-> "done", net |-> 0, out |-> cached.result_json,
                       hit |-> TRUE, hitVersion |-> cached.calc_version,
                       errors |-> {}]])
          ELSE /\ pairTask' = [pairTask EXCEPT ![p].pc = "calls", ![p].net = calls]
               /\ inFlight' = inFlight + calls
               /\ UNCHANGED <<pairResults, pairLimiter, phase, singleTask>>
    /\ UNCHANGED <<request, env, world, down, upstreamLimiter, itemTask, medLookups,
                   response, medCache, pairCache, calcVersion, requestsDone>>

\* One provider call of a pair task settles while others are pending.
PairTaskCallSettles(p) ==
    /\ pairTask[p].pc = "calls"
    /\ pairTask[p].net > 1
    /\ pairTask' = [pairTask EXCEPT ![p].net = @ - 1]
    /\ inFlight' = inFlight - 1
    /\ UNCHANGED <<request, env, world, down, phase, upstreamLimiter, pairLimiter,
                   itemTask, medLookups, pairResults, singleTask, response, medCache,
                   pairCache, calcVersion, requestsDone>>

\* What the four providers of a pair return
PairProviderResults(key, lookupA, lookupB) ==
    [rx |-> IF ~(lookupA.rxnorm_rxcui /\ lookupB.rxnorm_rxcui) THEN Skipped
            ELSE IF "rxnorm-interactions" \in down THEN Failed
            ELSE RxNormFact(world, key),
     supp |-> IF ~env.suppaiKey \/ "suppai-interactions" \in down THEN SuppAiFailed
              ELSE SuppAiFact(world, key),
     ae |-> IF "fda-adverse-events" \in down THEN AdverseEventsFailed
            ELSE AdverseEventsFact(world, key),
     ai |-> IF ~request.includeAi THEN Skipped
            ELSE IF ~env.openaiKey \/ "ai-literature" \in down THEN Failed
            ELSE AiFact(world, key)]

\* The last provider call of a pair task settles: the continuation of await
\* Promise.all(providerPromises) builds the report and calls
\* setPairInteractionCache.
PairTaskJoin(p) ==
    /\ pairTask[p].pc = "calls"
    /\ pairTask[p].net = 1
    /\ pairTask' = [pairTask EXCEPT ![p].pc = "cacheWrite", ![p].net = 0,
           ![p].out = PairReport(ItemA(p), ItemB(p), LookupA(p), LookupB(p),
                                 request.includeAi, env.suppaiKey,
                                 PairProviderResults(PairKeyOf(p), LookupA(p), LookupB(p))),
           ![p].errors = PairErrors(LookupA(p), LookupB(p))]
    /\ inFlight' = inFlight - 1
    /\ UNCHANGED <<request, env, world, down, phase, upstreamLimiter, pairLimiter,
                   itemTask, medLookups, pairResults, singleTask, response, medCache,
                   pairCache, calcVersion, requestsDone>>

\* The continuation of await setPairInteractionCache: the row is written,
\* the report becomes the pair's result and the task returns.
PairTaskCacheWrite(p) ==
    /\ pairTask[p].pc = "cacheWrite"
    /\ LET key == PairKeyOf(p)
       IN /\ pairCache' = [pairCache EXCEPT ![key] =
                              setPairInteractionCache(pairTask[p].out, calcVersion)]
          /\ pairResults' = MapSet(pairResults, key, pairTask[p].out)
    /\ AfterPairTask([pairTask EXCEPT ![p].pc = "done"])
    /\ UNCHANGED <<request, env, world, down, upstreamLimiter, itemTask, medLookups,
                   response, medCache, calcVersion, requestsDone>>

\* standardizeFdaLabel: a record of severity moderate when warnings exist
standardizeFdaLabel(warnings) ==
    IF ~warnings THEN <<>>
    ELSE <<[name |-> "FDA Label", severity |-> "moderate", stats |-> NoStats]>>

\* standardizeSingleDrugAdverseEvents: null when totalEvents is 0; severity
\* unknown; rates when the item's exposure is known
standardizeSingleDrugAdverseEvents(result, beneficiaries) ==
    IF result.totalEvents = 0 THEN <<>>
    ELSE <<[name |-> "openFDA Adverse Events", severity |-> "unknown",
            stats |-> [present |-> TRUE, totalEvents |-> result.totalEvents,
                       seriousEvents |-> result.seriousEvents,
                       beneficiaries |-> beneficiaries, rates |-> beneficiaries > 0,
                       sparse |-> FALSE]]>>

\* The sources of a single report: the label record, then the adverse-event
\* record unless fetchSingleDrugAdverseEvents returned an error
SingleSources(lookup, result) ==
    standardizeFdaLabel(lookup.fda_label_warnings)
    \o (IF result.error THEN <<>>
        ELSE standardizeSingleDrugAdverseEvents(result, lookup.cms_beneficiaries))

\* A triple report over the three source lists put end to end, not merged.
TripleReportUnmerged(t, results) ==
    LET keys == <<generatePairKey(request.items[t[1]], request.items[t[2]]),
                  generatePairKey(request.items[t[1]], request.items[t[3]]),
                  generatePairKey(request.items[t[2]], request.items[t[3]])>>
        srcOf(k) == IF keys[k] \in Range(results.order)
                    THEN results.get[keys[k]].sources ELSE <<>>
        allSources == srcOf(1) \o srcOf(2) \o srcOf(3)
    IN [items |-> <<request.items[t[1]], request.items[t[2]], request.items[t[3]]>>,
        severity |-> calculateConsensusSeverity(allSources),
        confidence |-> calculateOverallConfidence(allSources),
        sources |-> allSources,
        summary |-> IF Len(allSources) > 0 THEN "combined_first_source"
                    ELSE "no_significant_interactions",
        keyNotes |-> Min(Len(allSources), 3)]

\* One triple: the results of its three pair keys that pairResults holds,
\* their sources merged, consensus and overall confidence of the merged list
TripleReport(t, results) ==
    LET keys == <<generatePairKey(request.items[t[1]], request.items[t[2]]),
                  generatePairKey(request.items[t[1]], request.items[t[3]]),
                  generatePairKey(request.items[t[2]], request.items[t[3]])>>
        srcOf(k) == IF keys[k] \in Range(results.order)
                    THEN results.get[keys[k]].sources ELSE <<>>
        mergedSources == mergeSources(srcOf(1) \o srcOf(2) \o srcOf(3))
    IN [items |-> <<request.items[t[1]], request.items[t[2]], request.items[t[3]]>>,
        severity |-> calculateConsensusSeverity(mergedSources),
        confidence |-> calculateOverallConfidence(mergedSources),
        sources |-> mergedSources,
        summary |-> IF Len(mergedSources) > 0 THEN "combined_first_source"
                    ELSE "no_significant_interactions",
        keyNotes |-> Min(Len(mergedSources), 3)]

\* The response: singles in item order, Array.from(pairResults.values()),
\* one triple report per generated triple
BuildResponse(singles) ==
    LET triples == generateTriples(request.items)
    IN [returned |-> TRUE,
        singles |-> [i \in 1..NumItems |-> [sources |-> singles[i].sources]],
        pairs |-> [k \in 1..Len(pairResults.order) |-> pairResults.get[pairResults.order[k]]],
        triples |-> [k \in 1..Len(triples) |-> TripleReport(triples[k], pairResults)],
        calcVersion |-> calcVersion, status |-> 200, error |-> "",
        itemCount |-> NumItems]

\* The continuation of await fetchSingleDrugAdverseEvents for one item: its
\* single report is built. When it is the last one, Promise.all resolves
\* and the triples and the response are built and returned.
SingleSettles(i) ==
    /\ singleTask[i].pc = "call"
    /\ LET name == request.items[i]
           result == IF "fda-adverse-events-single" \in down THEN AdverseEventsFailed
                     ELSE SingleEventsFact(world, name)
           st == [singleTask EXCEPT ![i] =
                     [pc |-> "done", sources |-> SingleSources(medLookups[name], result)]]
       IN /\ singleTask' = st
          /\ inFlight' = inFlight - 1
          /\ IF AllSettled(st, NumItems)
             THEN /\ response' = BuildResponse(st)
                  /\ phase' = "done"
                  /\ requestsDone' = requestsDone + 1
             ELSE UNCHANGED <<response, phase, requestsDone>>
    /\ UNCHANGED <<request, env, world, down, upstreamLimiter, pairLimiter, itemTask,
                   medLookups, pairTask, pairResults, medCache, pairCache, calcVersion>>

\* A build with another CALC_VERSION is deployed between two requests.
Deploy ==
    /\ phase = "done"
    /\ requestsDone < MaxRequests
    /\ Len(request.items) <= MaxReissueItems
    /\ \E v \in Versions \ {calcVersion} : calcVersion' = v
    /\ UNCHANGED <<request, env, world, down, phase, upstreamLimiter, pairLimiter,
                   itemTask, medLookups, pairTask, pairResults, singleTask, response,
                   medCache, pairCache, inFlight, requestsDone>>

\* More than 24 hours pass between two requests.
DayPasses ==
    /\ phase = "done"
    /\ requestsDone < MaxRequests
    /\ Len(request.items) <= MaxReissueItems
    /\ \E nm \in Names : medCache[nm].present /\ ~medCache[nm].stale
    /\ medCache' = [nm \in Names |-> IF medCache[nm].present
                                     THEN [medCache[nm] EXCEPT !.stale = TRUE]
                                     ELSE medCache[nm]]
    /\ UNCHANGED <<request, env, world, down, phase, upstreamLimiter, pairLimiter,
                   itemTask, medLookups, pairTask, pairResults, singleTask, response,
                   pairCache, calcVersion, inFlight, requestsDone>>

-----------------------------------------------------------------------------
(* Properties of the limiter *)

Running == {t \in Tasks : taskState[t] = "running"}

\* C1: for a limiter created with concurrency N, after any sequence of
\* submissions and completions (fulfilled or rejected), the number of tasks
\* that have started and not yet settled is never greater than N.
C1_AtMostNRunning == Cardinality(Running) <= concurrency

\* C1 witness: the limiter is full, a task waits, and both a fulfilled and a
\* rejected task have already given their slot back.
C1_Witness ==
    /\ Cardinality(Running) = concurrency
    /\ Len(queue) > 0
    /\ \E t, u \in Tasks :
         /\ taskState[t] = "released" /\ taskOutcome[t] = "fulfilled"
         /\ taskState[u] = "released" /\ taskOutcome[u] = "rejected"

\* C2: tasks are admitted in FIFO order: the k-th task to start is the k-th
\* task submitted, so no task starts before every earlier submission has,
\* whatever the order in which running tasks complete.
C2_FifoAdmission == \A i \in 1..Len(startOrder) : startOrder[i] = i

\* C2 witness: a task that had to wait has started after a later-started
\* task completed before an earlier-started one (completion out of order).
C2_Witness ==
    /\ Len(startOrder) > concurrency
    /\ \E t, u \in Tasks :
         /\ t < u
         /\ taskState[t] = "running"
         /\ taskState[u] = "released"

-----------------------------------------------------------------------------
(* Properties of the consensus engine *)

\* C3: for every list E of merged evidence records (at most one per
\* origin), if calculateConsensusSeverity(E) is severe then either some
\* record with reliability weight >= 0.8 voted severe, or the combined
\* weight of the records voting severe is >= 1.5 and no high-reliability
\* record voted a severity other than severe or unknown.
C3_SevereNeedsSupport ==
    consensus = "severe" =>
        \/ HasHighReliabilitySevere(evidence)
        \/ /\ VotesFor(evidence, "severe") >= 15
           /\ ~HasHighReliabilityNonSevere(evidence)

-----------------------------------------------------------------------------
(* Properties of one pair computed on a cache miss *)

PairComputed == pairPc \in {"cacheWrite", "done"}

RxAttempted == pairIn.lookupA.rxnorm_rxcui /\ pairIn.lookupB.rxnorm_rxcui

\* some primary provider (RxNorm interactions, pair adverse events,
\* supplement interactions) was called and returned without error
SomePrimaryOk ==
    \/ RxAttempted /\ ~pairRes.rx.error
    \/ ~pairRes.ae.error
    \/ pairIn.suppaiKey /\ ~pairRes.supp.error

\* no provider that was called returned an error
NoAttemptedError ==
    /\ RxAttempted => ~pairRes.rx.error
    /\ pairIn.suppaiKey => ~pairRes.supp.error
    /\ ~pairRes.ae.error
    /\ pairIn.includeAi => ~pairRes.ai.error

\* C4 as stated: for every pair computed on a cache miss, if its merged
\* source list is empty and at least one primary provider was attempted and
\* completed without error, the report's severity is none, whatever the
\* outcome of the other providers.
C4_NoneWhenAnyPrimaryOk ==
    (PairComputed /\ Len(pairOut.sources) = 0 /\ SomePrimaryOk)
        => pairOut.severity = "none"

\* C4 amended: for every pair computed on a cache miss, if its merged
\* source list is empty, at least one primary provider was attempted and
\* completed without error, and no attempted provider returned an error, the
\* report's severity is none, not unknown.
C4_NoneWhenAllAttemptedOk ==
    (PairComputed /\ Len(pairOut.sources) = 0 /\ SomePrimaryOk /\ NoAttemptedError)
        => pairOut.severity = "none"

\* C4 witness: a stored report lifted to none with RxNorm and adverse events
\* both checked and empty, while the supplement provider had no key.
C4_Witness ==
    /\ pairPc = "done"
    /\ Len(pairOut.sources) = 0
    /\ RxAttempted /\ ~pairRes.rx.error /\ ~pairRes.ae.error
    /\ ~pairIn.suppaiKey /\ pairRes.supp.error
    /\ NoAttemptedError
    /\ pairOut.severity = "none"

\* C5: for every pair whose two items both have an RxNorm identifier, if
\* the RxNorm interactions call returns an error, the pair report's
\* confidence is exactly 0, whatever the other providers returned.
C5_ZeroConfidenceOnRxFailure ==
    (PairComputed /\ RxAttempted /\ pairRes.rx.error) => pairOut.confidence.num = 0

\* C5 witness: the RxNorm check failed while two other providers
\* contributed records, and the stored report has confidence 0.
C5_Witness ==
    /\ pairPc = "done"
    /\ RxAttempted /\ pairRes.rx.error
    /\ Len(pairOut.sources) >= 2
    /\ pairOut.confidence.num = 0

-----------------------------------------------------------------------------
(* src/server/utils/normalize.ts on strings: a string is the sequence of   *)
(* its characters                                                          *)

\* Characters of the inputs: a lowercase and an uppercase letter, two kinds
\* of whitespace, and the slash
Chars == {"a", "B", " ", "\t", "/"}

\* what \s matches and trim() removes
IsSpace(c) == c \in {" ", "\t"}

\* the UTF-16 code unit, which Array.prototype.sort compares strings by
CharCode(c) ==
    CASE c = "\t" -> 9 [] c = " " -> 32 [] c = "/" -> 47 [] c = "B" -> 66
      [] c = "a" -> 97 [] OTHER -> 98

toLowerCase(s) == [i \in 1..Len(s) |-> IF s[i] = "B" THEN "b" ELSE s[i]]

RECURSIVE TrimStart(_)
TrimStart(s) == IF s # <<>> /\ IsSpace(Head(s)) THEN TrimStart(Tail(s)) ELSE s

RECURSIVE TrimEnd(_)
TrimEnd(s) ==
    IF s # <<>> /\ IsSpace(s[Len(s)]) THEN TrimEnd(SubSeq(s, 1, Len(s) - 1)) ELSE s

trim(s) == TrimEnd(TrimStart(s))

RECURSIVE SkipSpaces(_, _)
\* the first position from i on that holds no whitespace, Len(s) + 1 if none
SkipSpaces(s, i) == IF i <= Len(s) /\ IsSpace(s[i]) THEN SkipSpaces(s, i + 1) ELSE i

RECURSIVE ReplaceSlashSpacingFrom(_, _)
ReplaceSlashSpacingFrom(s, i) ==
    IF i > Len(s) THEN <<>>
    ELSE LET j == SkipSpaces(s, i)
         IN IF j <= Len(s) /\ s[j] = "/"
            THEN <<"/">> \o ReplaceSlashSpacingFrom(s, SkipSpaces(s, j + 1))
            ELSE <<s[i]>> \o ReplaceSlashSpacingFrom(s, i + 1)

RECURSIVE ReplaceOneSpaceBeforeSlashFrom(_, _)
ReplaceOneSpaceBeforeSlashFrom(s, i) ==
    IF i > Len(s) THEN <<>>
    ELSE IF i < Len(s) /\ IsSpace(s[i]) /\ s[i + 1] = "/"
    THEN <<"/">> \o ReplaceOneSpaceBeforeSlashFrom(s, i + 2)
    ELSE <<s[i]>> \o ReplaceOneSpaceBeforeSlashFrom(s, i + 1)

\* replace(/\s\//g, "/"): one whitespace character before a slash is removed
ReplaceOneSpaceBeforeSlash(s) == ReplaceOneSpaceBeforeSlashFrom(s, 1)

\* replace(/\s*\/\s*/g, "/"): leftmost matches, each taking the whitespace
\* run before the slash and the one after it
ReplaceSlashSpacing(s) == ReplaceSlashSpacingFrom(s, 1)

RECURSIVE CollapseSpacesFrom(_, _)
CollapseSpacesFrom(s, i) ==
    IF i > Len(s) THEN <<>>
    ELSE IF IsSpace(s[i]) THEN <<" ">> \o CollapseSpacesFrom(s, SkipSpaces(s, i))
    ELSE <<s[i]>> \o CollapseSpacesFrom(s, i + 1)

\* replace(/\s+/g, " ")
CollapseSpaces(s) == CollapseSpacesFrom(s, 1)

normalizeMedicationValue(value) ==
    trim(CollapseSpaces(ReplaceSlashSpacing(toLowerCase(trim(value)))))

RECURSIVE StringLess(_, _)
\* x < y as sort compares two strings: by code units, a prefix first
StringLess(x, y) ==
    IF y = <<>> THEN FALSE
    ELSE IF x = <<>> THEN TRUE
    ELSE IF Head(x) # Head(y) THEN CharCode(Head(x)) < CharCode(Head(y))
    ELSE StringLess(Tail(x), Tail(y))

\* an array of two strings left as it is
SortTwoKeepOrder(x, y) == <<x, y>>

\* [x, y].sort()
SortTwo(x, y) == IF StringLess(y, x) THEN <<y, x>> ELSE <<x, y>>

\* generatePairKey on strings: `${first}::${second}`
generatePairKeyString(a, b) ==
    LET sorted == SortTwo(normalizeMedicationValue(a), normalizeMedicationValue(b))
    IN sorted[1] \o <<":", ":">> \o sorted[2]

NoCall == [op |-> "none"]

\* normalizeMedicationValue is applied to a string
CallNormalize ==
    /\ call = NoCall
    /\ \E value \in SeqUpTo(Chars, MaxStringLen) :
         call' = [op |-> "normalizeMedicationValue", value |-> value,
                  result |-> normalizeMedicationValue(value)]

\* generatePairKey is applied to two strings
CallGeneratePairKey ==
    /\ call = NoCall
    /\ \E a \in SeqUpTo(Chars, MaxStringLen), b \in SeqUpTo(Chars, MaxOtherStringLen) :
         call' = [op |-> "generatePairKey", a |-> a, b |-> b,
                  result |-> generatePairKeyString(a, b)]

-----------------------------------------------------------------------------
(* src/server/providers/openfdaLabel.ts : the record fetchFdaLabel accepts  *)
(* from the answer to its generic_name query. A text (a warning, a name) is *)
(* the set of the medication names that occur in it, so text.includes(name) *)
(* is membership; no name of the model occurs inside another.              *)

MedNames == {"ibuprofen", "naproxen", "aspirin"}

\* the members of the table OTHER_NSAIDS among the names of the model
OTHER_NSAIDS == {"naproxen", "aspirin"}

\* the medications asked about
QueriedMedications == {"ibuprofen", "naproxen"}

\* a label of data.results: openfda.generic_name and warnings (absent, or
\* an array of texts)
LabelRecords ==
    [generic_name : (SUBSET MedNames) \ {{}},
     warnings : [present : {FALSE}, list : {<<>>}]
                \cup [present : {TRUE},
                      list : SeqUpTo(SUBSET {"ibuprofen", "naproxen"}, MaxWarnings) \ {<<>>}]]

containsOtherNSAIDs(text, queriedMedication) ==
    \E nsaid \in OTHER_NSAIDS : nsaid # queriedMedication /\ nsaid \in text

labelContainsOtherNSAIDs(result, queriedMedication) ==
    \/ queriedMedication = "ibuprofen" /\ "naproxen" \in result.generic_name
    \/ \E name \in result.generic_name :
         name # queriedMedication /\ containsOtherNSAIDs({name}, queriedMedication)

\* with requireMatch: an exact or including generic_name, else no match
isPrimaryIngredientMatch(result, queriedMedication) ==
    queriedMedication \in result.generic_name

NoLabelResult == [found |-> FALSE, warnings |-> [present |-> FALSE, list |-> <<>>]]

\* warnings = result.warnings; null when the label has neither warnings, a
\* product name nor an rxcui (the labels of the model carry warnings only)
extractWarningsAndMetadata(result) ==
    IF result.warnings.present THEN [found |-> TRUE, warnings |-> result.warnings]
    ELSE NoLabelResult

RECURSIVE extractFdaLabelDataWithFilter(_, _)
\* the loop over data.results with fieldType "generic_name": the first
\* label that matches, is for the queried ingredient and names no other
\* NSAID is extracted and returned
extractFdaLabelDataWithFilter(results, normalizedValue) ==
    IF results = <<>> THEN NoLabelResult
    ELSE LET result == Head(results)
         IN IF /\ normalizedValue \in result.generic_name
               /\ isPrimaryIngredientMatch(result, normalizedValue)
               /\ ~labelContainsOtherNSAIDs(result, normalizedValue)
            THEN extractWarningsAndMetadata(result)
            ELSE extractFdaLabelDataWithFilter(Tail(results), normalizedValue)

\* fetchFdaLabel reads the answer to its generic_name query
CallExtractFdaLabelData ==
    /\ call = NoCall
    /\ \E queried \in QueriedMedications, results \in SeqUpTo(LabelRecords, MaxLabelRecords) :
         call' = [op |-> "extractFdaLabelDataWithFilter", queried |-> queried,
                  results |-> results,
                  result |-> extractFdaLabelDataWithFilter(results, queried)]

-----------------------------------------------------------------------------
(* Specifications *)

\* One limiter: any number of submissions, settlements and releases.
LimInit ==
    /\ concurrency \in 1..MaxConcurrency
    /\ active = 0
    /\ queue = <<>>
    /\ taskState = [t \in Tasks |-> "new"]
    /\ nSubmitted = 0
    /\ startOrder = <<>>
    /\ taskOutcome = [t \in Tasks |-> "none"]
    /\ evidence = <<>> /\ consensus = "pending"
    /\ pairIn = IdlePair /\ pairPc = "done" /\ pairPending = 0
    /\ pairRes = NoResults /\ pairOut = NoReport /\ pairStored = NoReport
    /\ env = [suppaiKey |-> FALSE, openaiKey |-> FALSE]
    /\ request = [items |-> <<"a">>, includeAi |-> FALSE, includeCms |-> FALSE,
                  forceRefresh |-> FALSE]
    /\ world = "rich" /\ down = {} /\ phase = "idle"
    /\ upstreamLimiter = [active |-> 0, queue |-> <<>>]
    /\ pairLimiter = [active |-> 0, queue |-> <<>>]
    /\ itemTask = [i \in ItemIds |-> IdleItemTask]
    /\ medLookups = [nm \in Names |-> NoLookup]
    /\ pairTask = [p \in PairIds |-> IdlePairTask]
    /\ pairResults = NoPairResults
    /\ singleTask = [i \in ItemIds |-> IdleSingleTask]
    /\ response = NoResponse
    /\ medCache = [nm \in Names |-> NoRow]
    /\ pairCache = [k \in PairKeys |-> NoEntry]
    /\ calcVersion = "v1.0.0" /\ inFlight = 0 /\ requestsDone = 0
    /\ previous = NoResponse
    /\ mergeIn = <<>> /\ merged = NotMerged
    /\ call = NoCall

LimNext ==
    \/ Submit /\ UNCHANGED <<consVars, mergeVars, pairVars, reqVars, call>>
    \/ \E t \in Tasks : Settle(t) /\ UNCHANGED <<consVars, mergeVars, pairVars, reqVars, call>>
    \/ \E t \in Tasks : Release(t) /\ UNCHANGED <<consVars, mergeVars, pairVars, reqVars, call>>

LimSpec == LimInit /\ [][LimNext]_vars

\* The limiter when every started task settles (the proviso of the claim
\* about termination) and the event loop runs every pending .finally
\* callback; nothing obliges a caller to submit.
LimLiveSpec ==
    /\ LimInit
    /\ [][LimNext]_vars
    /\ \A t \in Tasks :
          /\ WF_vars(Settle(t) /\ UNCHANGED <<consVars, mergeVars, pairVars, reqVars, call>>)
          /\ WF_vars(Release(t) /\ UNCHANGED <<consVars, mergeVars, pairVars, reqVars, call>>)

\* calculateConsensusSeverity applied to every merged evidence list.
ConsInit ==
    /\ \E f \in [NameSet -> Severities \cup {"absent"}] : evidence = ListOf(f, 1)
    /\ consensus = "pending"
    /\ concurrency = 1 /\ active = 0 /\ queue = <<>>
    /\ taskState = [t \in Tasks |-> "new"] /\ nSubmitted = 0 /\ startOrder = <<>>
    /\ taskOutcome = [t \in Tasks |-> "none"]
    /\ pairIn = IdlePair /\ pairPc = "done" /\ pairPending = 0
    /\ pairRes = NoResults /\ pairOut = NoReport /\ pairStored = NoReport
    /\ env = [suppaiKey |-> FALSE, openaiKey |-> FALSE]
    /\ request = [items |-> <<"a">>, includeAi |-> FALSE, includeCms |-> FALSE,
                  forceRefresh |-> FALSE]
    /\ world = "rich" /\ down = {} /\ phase = "idle"
    /\ upstreamLimiter = [active |-> 0, queue |-> <<>>]
    /\ pairLimiter = [active |-> 0, queue |-> <<>>]
    /\ itemTask = [i \in ItemIds |-> IdleItemTask]
    /\ medLookups = [nm \in Names |-> NoLookup]
    /\ pairTask = [p \in PairIds |-> IdlePairTask]
    /\ pairResults = NoPairResults
    /\ singleTask = [i \in ItemIds |-> IdleSingleTask]
    /\ response = NoResponse
    /\ medCache = [nm \in Names |-> NoRow]
    /\ pairCache = [k \in PairKeys |-> NoEntry]
    /\ calcVersion = "v1.0.0" /\ inFlight = 0 /\ requestsDone = 0
    /\ previous = NoResponse
    /\ mergeIn = <<>> /\ merged = NotMerged
    /\ call = NoCall

ConsNext == Consensus /\ UNCHANGED <<limVars, mergeVars, pairVars, reqVars, call>>

ConsSpec == ConsInit /\ [][ConsNext]_vars

\* One pair task from its cache miss on, for every pair of lookups, option
\* and key setting, and every result the providers can return.
PairInit ==
    /\ pairIn \in [lookupA : Lookups, lookupB : Lookups, includeAi : BOOLEAN,
                   suppaiKey : BOOLEAN, openaiKey : BOOLEAN]
    /\ pairPc = "calls"
    /\ pairPending = PairCalls(pairIn.lookupA, pairIn.lookupB, pairIn.includeAi,
                               pairIn.suppaiKey, pairIn.openaiKey)
    /\ pairRes = NoResults
    /\ pairOut = NoReport
    /\ pairStored = NoReport
    /\ concurrency = 1 /\ active = 0 /\ queue = <<>>
    /\ taskState = [t \in Tasks |-> "new"] /\ nSubmitted = 0 /\ startOrder = <<>>
    /\ taskOutcome = [t \in Tasks |-> "none"]
    /\ evidence = <<>> /\ consensus = "pending"
    /\ env = [suppaiKey |-> FALSE, openaiKey |-> FALSE]
    /\ request = [items |-> <<"a">>, includeAi |-> FALSE, includeCms |-> FALSE,
                  forceRefresh |-> FALSE]
    /\ world = "rich" /\ down = {} /\ phase = "idle"
    /\ upstreamLimiter = [active |-> 0, queue |-> <<>>]
    /\ pairLimiter = [active |-> 0, queue |-> <<>>]
    /\ itemTask = [i \in ItemIds |-> IdleItemTask]
    /\ medLookups = [nm \in Names |-> NoLookup]
    /\ pairTask = [p \in PairIds |-> IdlePairTask]
    /\ pairResults = NoPairResults
    /\ singleTask = [i \in ItemIds |-> IdleSingleTask]
    /\ response = NoResponse
    /\ medCache = [nm \in Names |-> NoRow]
    /\ pairCache = [k \in PairKeys |-> NoEntry]
    /\ calcVersion = "v1.0.0" /\ inFlight = 0 /\ requestsDone = 0
    /\ previous = NoResponse
    /\ mergeIn = <<>> /\ merged = NotMerged
    /\ call = NoCall

PairNext ==
    \/ PairCallSettles /\ UNCHANGED <<limVars, consVars, mergeVars, reqVars, call>>
    \/ PairJoin /\ UNCHANGED <<limVars, consVars, mergeVars, reqVars, call>>
    \/ PairStore /\ UNCHANGED <<limVars, consVars, mergeVars, reqVars, call>>

PairSpec == PairInit /\ [][PairNext]_vars

\* mergeSources applied to every evidence list of up to MaxMergeLen records.
MergeInit ==
    /\ mergeIn \in MergeInputs
    /\ merged = NotMerged
    /\ call = NoCall
    /\ concurrency = 1 /\ active = 0 /\ queue = <<>>
    /\ taskState = [t \in Tasks |-> "new"] /\ nSubmitted = 0 /\ startOrder = <<>>
    /\ taskOutcome = [t \in Tasks |-> "none"]
    /\ evidence = <<>> /\ consensus = "pending"
    /\ pairIn = IdlePair /\ pairPc = "done" /\ pairPending = 0
    /\ pairRes = NoResults /\ pairOut = NoReport /\ pairStored = NoReport
    /\ env = [suppaiKey |-> FALSE, openaiKey |-> FALSE]
    /\ request = [items |-> <<"a">>, includeAi |-> FALSE, includeCms |-> FALSE,
                  forceRefresh |-> FALSE]
    /\ world = "rich" /\ down = {} /\ phase = "idle"
    /\ upstreamLimiter = [active |-> 0, queue |-> <<>>]
    /\ pairLimiter = [active |-> 0, queue |-> <<>>]
    /\ itemTask = [i \in ItemIds |-> IdleItemTask]
    /\ medLookups = [nm \in Names |-> NoLookup]
    /\ pairTask = [p \in PairIds |-> IdlePairTask]
    /\ pairResults = NoPairResults
    /\ singleTask = [i \in ItemIds |-> IdleSingleTask]
    /\ response = NoResponse
    /\ medCache = [nm \in Names |-> NoRow]
    /\ pairCache = [k \in PairKeys |-> NoEntry]
    /\ calcVersion = "v1.0.0" /\ inFlight = 0 /\ requestsDone = 0
    /\ previous = NoResponse

MergeNext == Merge /\ UNCHANGED <<limVars, consVars, pairVars, reqVars, call>>

MergeSpec == MergeInit /\ [][MergeNext]_vars

-----------------------------------------------------------------------------
(* src/server/utils/timeout.ts : fetchWithTimeout, fetchWithRetry *)

\* backoffMs: the default (also FDA_LABEL_RETRY_BACKOFF_MS), and two other
\* values a caller can pass
BackoffValues == {250, 500, 1000}

\* What fetchWithTimeout throws: the "Request timeout after ...ms" error when
\* the abort signal fired, or the error fetch threw
FetchErrors == {"Request timeout", "fetch failed"}

\* The statuses of a Response fetch resolves with (a status that is not ok
\* is a response too)
ResponseStatuses == {200, 503}

\* fetchWithRetry is called: maxRetries and backoffMs are read from the
\* options, lastError = null, and the loop is entered with attempt = 0.
\* attempts, waits and errors record the calls of fetchWithTimeout made, the
\* delays of the timers awaited and the errors caught.
RetryStart ==
    /\ call = NoCall
    /\ \E mr \in 0..MaxRetries, bo \in BackoffValues :
         call' = [op |-> "fetchWithRetry", maxRetries |-> mr, backoffMs |-> bo,
                  attempt |-> 0, pc |-> "fetch", lastError |-> "null",
                  attempts |-> 0, waits |-> <<>>, errors |-> <<>>,
                  result |-> "pending", status |-> 0]

\* await fetchWithTimeout resolves: the response is returned
AttemptReturns ==
    /\ call.op = "fetchWithRetry"
    /\ call.pc = "fetch"
    /\ \E st \in ResponseStatuses :
         call' = [call EXCEPT !.attempts = @ + 1, !.pc = "returned",
                              !.result = "response", !.status = st]

\* An AttemptFails that throws the error of the first attempt.
AttemptFailsKeepsFirstError ==
    /\ call.op = "fetchWithRetry"
    /\ call.pc = "fetch"
    /\ \E e \in FetchErrors :
         LET first == IF call.lastError = "null" THEN e ELSE call.lastError
         IN IF call.attempt < call.maxRetries
            THEN call' = [call EXCEPT !.attempts = @ + 1, !.lastError = first,
                                      !.errors = Append(@, e), !.pc = "wait"]
            ELSE call' = [call EXCEPT !.attempts = @ + 1, !.lastError = first,
                                      !.errors = Append(@, e), !.attempt = @ + 1,
                                      !.pc = "thrown", !.result = first]

\* await fetchWithTimeout rejects: lastError is set; with attempt <
\* maxRetries the backoff timer is awaited, otherwise the loop ends
\* (attempt++ makes its condition false) and lastError is thrown.
AttemptFails ==
    /\ call.op = "fetchWithRetry"
    /\ call.pc = "fetch"
    /\ \E e \in FetchErrors :
         IF call.attempt < call.maxRetries
         THEN call' = [call EXCEPT !.attempts = @ + 1, !.lastError = e,
                                   !.errors = Append(@, e), !.pc = "wait"]
         ELSE call' = [call EXCEPT !.attempts = @ + 1, !.lastError = e,
                                   !.errors = Append(@, e), !.attempt = @ + 1,
                                   !.pc = "thrown", !.result = e]

\* A BackoffElapses whose delay does not grow with the attempt.
BackoffElapsesConstant ==
    /\ call.op = "fetchWithRetry"
    /\ call.pc = "wait"
    /\ call' = [call EXCEPT !.waits = Append(@, call.backoffMs),
                            !.attempt = @ + 1, !.pc = "fetch"]

\* The timer of backoffMs * (attempt + 1) fires: continue; attempt++
BackoffElapses ==
    /\ call.op = "fetchWithRetry"
    /\ call.pc = "wait"
    /\ call' = [call EXCEPT !.waits = Append(@, call.backoffMs * (call.attempt + 1)),
                            !.attempt = @ + 1, !.pc = "fetch"]

-----------------------------------------------------------------------------
(* checkInteractions : trackProviderStatus *)

\* String.prototype.includes for a word in a string given as its words
Includes(string, word) == \E k \in 1..Len(string) : string[k] = word

\* Normalized item names as sequences of words, one of them holding the word
\* "interactions"
ItemWords == {<<"aspirin">>, <<"warfarin">>, <<"drug", " ", "interactions">>}

LookupProviders == {"rxnorm-lookup", "suppai-lookup", "fda-label", "cms-partd"}
InteractionsProviders == {"rxnorm-interactions", "suppai-interactions"}
OtherPairProviders == {"fda-adverse-events", "ai-literature"}

\* The words of the literal part of a provider status name
ProviderWords(provider) ==
    CASE provider = "rxnorm-lookup" -> <<"rxnorm", "-", "lookup", "-">>
      [] provider = "suppai-lookup" -> <<"suppai", "-", "lookup", "-">>
      [] provider = "fda-label" -> <<"fda", "-", "label", "-">>
      [] provider = "cms-partd" -> <<"cms", "-", "partd", "-">>
      [] provider = "rxnorm-interactions" -> <<"rxnorm", "-", "interactions", "-">>
      [] provider = "suppai-interactions" -> <<"suppai", "-", "interactions", "-">>
      [] provider = "fda-adverse-events" -> <<"fda", "-", "adverse", "-", "events", "-">>
      [] OTHER -> <<"ai", "-", "literature", "-">>

\* `${provider}-${item.normalized}` for an item, `${provider}-${pair.a}-${pair.b}`
\* for a pair
StatusName(provider, a, b) ==
    IF provider \in LookupProviders THEN ProviderWords(provider) \o a
    ELSE ProviderWords(provider) \o a \o <<"-">> \o b

\* The result objects a provider function resolves with
NullResult == [isNull |-> TRUE, data |-> FALSE, error |-> FALSE]
DataResult == [isNull |-> FALSE, data |-> TRUE, error |-> FALSE]
NoDataResult == [isNull |-> FALSE, data |-> FALSE, error |-> FALSE]
ErrorResult == [isNull |-> FALSE, data |-> FALSE, error |-> TRUE]

\* lookupRxCUI reports an absent identifier as the error "not found"; the
\* other providers resolve with data: null and no error when they find
\* nothing
ResultsOf(provider) ==
    IF provider = "rxnorm-lookup" THEN {DataResult, ErrorResult}
    ELSE {DataResult, NoDataResult, ErrorResult}

\* trackProviderStatus(name, result, attempted): isInteractionsProvider is
\* name.includes("interactions"), over the whole name
trackProviderStatus(name, result, attempted) ==
    LET isInteractionsProvider == Includes(name, "interactions")
    IN [attempted |-> attempted,
        ok |-> /\ attempted
               /\ ~result.isNull
               /\ ~result.error
               /\ (result.data \/ isInteractionsProvider),
        error |-> ~result.isNull /\ result.error]

\* One provider status is tracked: with the result of the provider when it
\* was called, with (null, false) when it was not
CallTrackProviderStatus ==
    /\ call = NoCall
    /\ \E provider \in LookupProviders \cup InteractionsProviders \cup OtherPairProviders,
          a \in ItemWords, b \in ItemWords, attempted \in BOOLEAN :
         \E result \in IF attempted THEN ResultsOf(provider) ELSE {NullResult} :
            call' = [op |-> "trackProviderStatus", provider |-> provider,
                     name |-> StatusName(provider, a, b), result |-> result,
                     status |-> trackProviderStatus(StatusName(provider, a, b),
                                                    result, attempted)]

\* One call of a function of normalize.ts or of openfdaLabel.ts, for every
\* argument up to the bounds
FnInit ==
    /\ mergeIn = <<>> /\ merged = NotMerged
    /\ call = NoCall
    /\ concurrency = 1 /\ active = 0 /\ queue = <<>>
    /\ taskState = [t \in Tasks |-> "new"] /\ nSubmitted = 0 /\ startOrder = <<>>
    /\ taskOutcome = [t \in Tasks |-> "none"]
    /\ evidence = <<>> /\ consensus = "pending"
    /\ pairIn = IdlePair /\ pairPc = "done" /\ pairPending = 0
    /\ pairRes = NoResults /\ pairOut = NoReport /\ pairStored = NoReport
    /\ env = [suppaiKey |-> FALSE, openaiKey |-> FALSE]
    /\ request = [items |-> <<"a">>, includeAi |-> FALSE, includeCms |-> FALSE,
                  forceRefresh |-> FALSE]
    /\ world = "rich" /\ down = {} /\ phase = "idle"
    /\ upstreamLimiter = [active |-> 0, queue |-> <<>>]
    /\ pairLimiter = [active |-> 0, queue |-> <<>>]
    /\ itemTask = [i \in ItemIds |-> IdleItemTask]
    /\ medLookups = [nm \in Names |-> NoLookup]
    /\ pairTask = [p \in PairIds |-> IdlePairTask]
    /\ pairResults = NoPairResults
    /\ singleTask = [i \in ItemIds |-> IdleSingleTask]
    /\ response = NoResponse
    /\ medCache = [nm \in Names |-> NoRow]
    /\ pairCache = [k \in PairKeys |-> NoEntry]
    /\ calcVersion = "v1.0.0" /\ inFlight = 0 /\ requestsDone = 0
    /\ previous = NoResponse

FnNext ==
    \/ CallNormalize /\ UNCHANGED <<limVars, consVars, mergeVars, pairVars, reqVars>>
    \/ CallGeneratePairKey /\ UNCHANGED <<limVars, consVars, mergeVars, pairVars, reqVars>>
    \/ CallExtractFdaLabelData /\ UNCHANGED <<limVars, consVars, mergeVars, pairVars, reqVars>>
    \/ CallTrackProviderStatus /\ UNCHANGED <<limVars, consVars, mergeVars, pairVars, reqVars>>

FnSpec == FnInit /\ [][FnNext]_vars

\* One call of fetchWithRetry, from the same initial state.
RetryNext ==
    \/ RetryStart /\ UNCHANGED <<limVars, consVars, mergeVars, pairVars, reqVars>>
    \/ AttemptReturns /\ UNCHANGED <<limVars, consVars, mergeVars, pairVars, reqVars>>
    \/ AttemptFails /\ UNCHANGED <<limVars, consVars, mergeVars, pairVars, reqVars>>
    \/ BackoffElapses /\ UNCHANGED <<limVars, consVars, mergeVars, pairVars, reqVars>>

RetrySpec == FnInit /\ [][RetryNext]_vars

\* checkInteractions serving MaxRequests requests in turn against the
\* cache stores, with a deployment or a day between them.
Init ==
    /\ env \in {[suppaiKey |-> TRUE, openaiKey |-> TRUE],
                [suppaiKey |-> FALSE, openaiKey |-> FALSE]}
    /\ request = [items |-> <<"a">>, includeAi |-> FALSE, includeCms |-> FALSE,
                  forceRefresh |-> FALSE]
    /\ world = "rich"
    /\ down = {}
    /\ phase = "idle"
    /\ upstreamLimiter = [active |-> 0, queue |-> <<>>]
    /\ pairLimiter = [active |-> 0, queue |-> <<>>]
    /\ itemTask = [i \in ItemIds |-> IdleItemTask]
    /\ medLookups = [nm \in Names |-> NoLookup]
    /\ pairTask = [p \in PairIds |-> IdlePairTask]
    /\ pairResults = NoPairResults
    /\ singleTask = [i \in ItemIds |-> IdleSingleTask]
    /\ response = NoResponse
    /\ medCache = [nm \in Names |-> NoRow]
    /\ pairCache = [k \in PairKeys |-> NoEntry]
    /\ calcVersion = "v1.0.0"
    /\ inFlight = 0
    /\ requestsDone = 0
    /\ previous = NoResponse
    /\ mergeIn = <<>> /\ merged = NotMerged
    /\ call = NoCall
    /\ concurrency = 1 /\ active = 0 /\ queue = <<>>
    /\ taskState = [t \in Tasks |-> "new"] /\ nSubmitted = 0 /\ startOrder = <<>>
    /\ taskOutcome = [t \in Tasks |-> "none"]
    /\ evidence = <<>> /\ consensus = "pending"
    /\ pairIn = IdlePair /\ pairPc = "done" /\ pairPending = 0
    /\ pairRes = NoResults /\ pairOut = NoReport /\ pairStored = NoReport

Next ==
    \/ StartRequest /\ UNCHANGED <<limVars, consVars, mergeVars, pairVars, call>>
    \/ Reissue /\ UNCHANGED <<limVars, consVars, mergeVars, pairVars, call>>
    \/ Reject /\ UNCHANGED <<limVars, consVars, mergeVars, pairVars, call>>
    \/ \E i \in ItemIds : ItemCacheRead(i) /\ UNCHANGED <<limVars, consVars, mergeVars, pairVars, previous, call>>
    \/ \E i \in ItemIds : ItemCmsRead(i) /\ UNCHANGED <<limVars, consVars, mergeVars, pairVars, previous, call>>
    \/ \E i \in ItemIds : ItemCmsFetch(i) /\ UNCHANGED <<limVars, consVars, mergeVars, pairVars, previous, call>>
    \/ \E i \in ItemIds : ItemCallSettles(i) /\ UNCHANGED <<limVars, consVars, mergeVars, pairVars, previous, call>>
    \/ \E i \in ItemIds : ItemJoin(i) /\ UNCHANGED <<limVars, consVars, mergeVars, pairVars, previous, call>>
    \/ \E i \in ItemIds : ItemCacheWrite(i) /\ UNCHANGED <<limVars, consVars, mergeVars, pairVars, previous, call>>
    \/ \E p \in PairIds : PairTaskCacheRead(p) /\ UNCHANGED <<limVars, consVars, mergeVars, pairVars, previous, call>>
    \/ \E p \in PairIds : PairTaskCallSettles(p) /\ UNCHANGED <<limVars, consVars, mergeVars, pairVars, previous, call>>
    \/ \E p \in PairIds : PairTaskJoin(p) /\ UNCHANGED <<limVars, consVars, mergeVars, pairVars, previous, call>>
    \/ \E p \in PairIds : PairTaskCacheWrite(p) /\ UNCHANGED <<limVars, consVars, mergeVars, pairVars, previous, call>>
    \/ \E i \in ItemIds : SingleSettles(i) /\ UNCHANGED <<limVars, consVars, mergeVars, pairVars, previous, call>>
    \/ Deploy /\ UNCHANGED <<limVars, consVars, mergeVars, pairVars, previous, call>>
    \/ DayPasses /\ UNCHANGED <<limVars, consVars, mergeVars, pairVars, previous, call>>

Spec == Init /\ [][Next]_vars

-----------------------------------------------------------------------------
(* Properties of a request *)

NumPairs == Len(generatePairs(request.items))

\* a confidence (in units of 1/10000) lies in [0, 0.95]
InRange(c) == c.num >= 0 /\ c.num <= 9500 * c.den

\* C6: every pair report and every triple report in a response has
\* 0 <= confidence <= 0.95, whatever the providers returned, the event
\* counts and the exposure denominators.
C6_ConfidenceInRange ==
    response.returned =>
        /\ \A k \in 1..Len(response.pairs) : InRange(response.pairs[k].confidence)
        /\ \A k \in 1..Len(response.triples) : InRange(response.triples[k].confidence)

\* C6 witness: a response whose pair report rests on an adverse-event record
\* with the largest exposure and event count and reaches 0.90, together with
\* a triple report merged from records with an exposure denominator.
C6_Witness ==
    /\ response.returned
    /\ \E k \in 1..Len(response.pairs) :
         /\ response.pairs[k].confidence.num = 9000 * response.pairs[k].confidence.den
         /\ \E m \in 1..Len(response.pairs[k].sources) :
              /\ response.pairs[k].sources[m].stats.beneficiaries = 99999
              /\ response.pairs[k].sources[m].stats.totalEvents > 1000
    /\ \E k \in 1..Len(response.triples) :
         /\ response.triples[k].confidence.num > 0
         /\ \E m \in 1..Len(response.triples[k].sources) :
              response.triples[k].sources[m].stats.beneficiaries > 0

PairStarted(p) == pairTask[p].pc \notin {"idle", "queued"}

\* C7: within one request no pair task starts (not even its cache read)
\* before the item tasks of both its items have completed, and no triple is
\* computed before every pair task of the request has completed.
C7_PhasesInOrder ==
    /\ \A p \in 1..NumPairs :
         PairStarted(p) =>
            /\ itemTask[generatePairs(request.items)[p][1]].pc = "done"
            /\ itemTask[generatePairs(request.items)[p][2]].pc = "done"
    /\ Len(response.triples) > 0 => \A p \in 1..NumPairs : pairTask[p].pc = "done"

\* C7 witness: the triple of a three-item request has been computed after
\* its pair tasks ran, one of them on a cache miss.
C7_Witness ==
    /\ Len(response.triples) > 0
    /\ \A p \in 1..NumPairs : pairTask[p].pc = "done"
    /\ \E p \in 1..NumPairs : ~pairTask[p].hit
    /\ \A i \in 1..NumItems : itemTask[i].pc = "done"

HasSource(report, name) ==
    \E m \in 1..Len(report.sources) : report.sources[m].name = name

\* the records the providers that answered owe to the report of pair task p
OwedSources(p) ==
    /\ ("fda-adverse-events" \notin down
        /\ AdverseEventsFact(world, PairKeyOf(p)).totalEvents > 0)
          => HasSource(pairTask[p].out, "openFDA Adverse Events")
    /\ (request.includeAi /\ env.openaiKey /\ "ai-literature" \notin down)
          => HasSource(pairTask[p].out, "AI Literature")
    /\ (env.suppaiKey /\ "suppai-interactions" \notin down
        /\ Len(SuppAiFact(world, PairKeyOf(p)).interactions) > 0)
          => HasSource(pairTask[p].out, "SUPP.AI")
    /\ (LookupA(p).rxnorm_rxcui /\ LookupB(p).rxnorm_rxcui
        /\ "rxnorm-interactions" \notin down /\ RxNormFact(world, PairKeyOf(p)).found)
          => HasSource(pairTask[p].out, "RxNorm")

\* the response holds one single report per item and, for every pair of the
\* request, exactly one report of that pair
ResponseComplete ==
    response.returned =>
        /\ Len(response.singles) = NumItems
        /\ \A p \in 1..NumPairs :
             Cardinality({k \in 1..Len(response.pairs) :
                            {response.pairs[k].itemA, response.pairs[k].itemB}
                              = {ItemA(p), ItemB(p)}}) = 1

\* some task of the request is at a continuation that can run: it waits for
\* a cache store or for a provider call that is in flight
CanStep ==
    \/ \E i \in 1..NumItems :
          \/ itemTask[i].pc \in {"cacheRead", "cmsRead", "cmsFetch", "cacheWrite"}
          \/ itemTask[i].pc = "calls" /\ itemTask[i].net + (IF itemTask[i].db THEN 1 ELSE 0) > 0
    \/ \E p \in 1..NumPairs :
          \/ pairTask[p].pc \in {"cacheRead", "cacheWrite"}
          \/ pairTask[p].pc = "calls" /\ pairTask[p].net > 0
    \/ \E i \in 1..NumItems : singleTask[i].pc = "call"

\* C8 (safety part): whatever the provider calls of a request return, a
\* request under way can always take a step, the response holds one single
\* report per item and one pair report per pair, and in every pair computed
\* on a miss each provider that answered with data has its record in the
\* report even when another provider of the pair failed.
C8_ErrorsAreIsolated ==
    /\ phase \in {"items", "pairs", "singles"} => CanStep
    /\ ResponseComplete
    /\ \A p \in 1..NumPairs :
         (pairTask[p].pc \in {"cacheWrite", "done"} /\ ~pairTask[p].hit) => OwedSources(p)

\* C8 witness: a response returned while every endpoint answered with an
\* error, and it holds a report for each of the three pairs.
C8_Witness ==
    /\ response.returned
    /\ down = Endpoints
    /\ NumItems = 3
    /\ Len(response.pairs) = 3
    /\ Len(response.singles) = 3

\* C9: during one request at most 6 upstream provider calls are in flight
\* at any instant, over the item, pair and single phases together.
C9_AtMostSixInFlight == inFlight <= MAX_CONCURRENT_UPSTREAM_CALLS

\* C10: a pair-cache read under the current calcVersion never returns a
\* report written under another calcVersion: a stored entry whose
\* calc_version differs from the reader's is a miss.
C10_ReadScopedToVersion ==
    phase \in {"pairs", "singles"} =>
        \A p \in 1..NumPairs : pairTask[p].hit => pairTask[p].hitVersion = calcVersion

\* C10 witness: a pair task found the row of its pair key written under the
\* other version, missed, and is calling the providers.
C10_Witness ==
    \E p \in 1..NumPairs :
        /\ pairTask[p].pc = "calls"
        /\ ~request.forceRefresh
        /\ pairCache[PairKeyOf(p)].present
        /\ pairCache[PairKeyOf(p)].calc_version # calcVersion

\* an item-cache row older than 24 hours with an absent identifier
StaleNegative(row) ==
    row.present /\ row.stale /\ (~row.rxnorm_rxcui \/ ~row.suppai_id)

\* the lookup functions of the absent identifiers of a row
NegativeProviders(row) ==
    (IF row.rxnorm_rxcui THEN {} ELSE {"rxnorm-lookup"})
    \cup (IF row.suppai_id THEN {} ELSE {"suppai-lookup"})

\* C11: when an item-cache entry older than 24h has a negative field, the
\* item task of a request without forceRefresh calls only the lookup of
\* that negative field, and the write that follows leaves the other stored
\* fields (a present identifier, the label warnings) as they were.
C11_RefetchOnlyNegativeField ==
    [][~request.forceRefresh =>
         \A i \in 1..NumItems :
            LET row == medCache[request.items[i]]
                new == medCache'[request.items[i]]
            IN StaleNegative(row) =>
                 /\ (itemTask[i].pc = "cacheRead" /\ itemTask'[i].pc = "calls")
                       => itemTask'[i].called \subseteq NegativeProviders(row)
                 /\ (itemTask[i].pc = "cacheWrite" /\ itemTask'[i].pc = "done")
                       => /\ new.fda_label_warnings = row.fda_label_warnings
                          /\ row.rxnorm_rxcui => new.rxnorm_rxcui
                          /\ row.suppai_id => new.suppai_id]_vars

\* C12: no request with forceRefresh = false removes a positive value (a
\* present RxNorm identifier, supplement identifier or label-warnings
\* payload) from an item-cache entry, however old the entry is and whatever
\* the providers return.
C12_PositiveValuesKept ==
    [][~request.forceRefresh =>
         \A nm \in Names :
            medCache[nm].present =>
               /\ medCache[nm].rxnorm_rxcui => medCache'[nm].rxnorm_rxcui
               /\ medCache[nm].suppai_id => medCache'[nm].suppai_id
               /\ medCache[nm].fda_label_warnings => medCache'[nm].fda_label_warnings]_vars

\* C13: with forceRefresh = true no cache store is read during the request:
\* no item lookup, pair report or exposure value comes from a store (so the
\* hit counters stay 0) and no provider status is marked cached.
C13_ForceRefreshReadsNoStore ==
    request.forceRefresh =>
        /\ \A i \in 1..NumItems : itemTask[i].cached = {}
        /\ \A p \in 1..NumPairs : ~pairTask[p].hit

\* results as they go over the wire (JSON.stringify)
JsonResults(r) ==
    [singles |-> [k \in 1..Len(r.singles) |-> Json(r.singles[k])],
     pairs |-> [k \in 1..Len(r.pairs) |-> Json(r.pairs[k])],
     triples |-> [k \in 1..Len(r.triples) |-> Json(r.triples[k])]]

\* the request just served re-issued, without forceRefresh and under the
\* same calcVersion, the items of the request served before
IsReissue ==
    /\ response.returned
    /\ previous.returned
    /\ ~request.forceRefresh
    /\ response.calcVersion = previous.calcVersion

\* C14: a request re-issued with forceRefresh = false under the same
\* calcVersion returns results (singles, pairs, triples) identical to those
\* the first call returned, whatever the providers answer the second time.
C14_ReissueReturnsSameResults ==
    IsReissue => JsonResults(response) = JsonResults(previous)

\* the pair report of response r for the items x and y
PairOf(r, x, y) ==
    CHOOSE rep \in Range(r.pairs) : {rep.itemA, rep.itemB} = {x, y}

\* mergeSources of the source lists of the three pair reports of the k-th
\* triple of response r
TripleSourcesFromPairs(r, k) ==
    LET t == generateTriples(request.items)[k]
        x == request.items[t[1]]
        y == request.items[t[2]]
        z == request.items[t[3]]
    IN mergeSources(PairOf(r, x, y).sources \o PairOf(r, x, z).sources
                    \o PairOf(r, y, z).sources)

\* C15: the step that computes the triples issues no provider call and
\* touches no cache store, and every triple report is a function of its
\* three pair reports: its sources are mergeSources of their source lists,
\* its severity calculateConsensusSeverity and its confidence
\* calculateOverallConfidence of those merged sources.
C15_TriplesFromPairsOnly ==
    [][(~response.returned /\ response'.returned) =>
         /\ medCache' = medCache
         /\ pairCache' = pairCache
         /\ inFlight' <= inFlight
         /\ Len(response'.triples) = Len(generateTriples(request.items))
         /\ \A k \in 1..Len(response'.triples) :
              LET fromPairs == TripleSourcesFromPairs(response', k)
              IN /\ response'.triples[k].sources = fromPairs
                 /\ response'.triples[k].severity = calculateConsensusSeverity(fromPairs)
                 /\ response'.triples[k].confidence = calculateOverallConfidence(fromPairs)]_vars

\* C15 witness: a returned triple whose merged sources hold a record of an
\* origin that two of its pair reports both carry.
C15_Witness ==
    /\ response.returned
    /\ \E k \in 1..Len(response.triples) :
         /\ Len(response.triples[k].sources) >= 2
         /\ \E i, j \in 1..Len(response.pairs) :
              /\ i # j
              /\ HasSource(response.pairs[i], "openFDA Adverse Events")
              /\ HasSource(response.pairs[j], "openFDA Adverse Events")

\* the records of the list voting severe
SevereVoters(sources) ==
    {i \in 1..Len(sources) : sources[i].severity = "severe"}

\* C18: when the evidence list is a single AI Literature record (weight
\* 0.5) voting severe, calculateConsensusSeverity returns moderate.
C18_SoleAiSevereIsModerate ==
    (consensus # "pending"
     /\ evidence = <<[name |-> "AI Literature", severity |-> "severe"]>>)
        => consensus = "moderate"

\* C19: an AI Literature record voting severe never yields severe on its
\* own: for every evidence list in which it is the only record voting
\* severe (the list holding nothing else included), the consensus severity
\* is not severe.
C19_AiAloneNeverSevere ==
    (/\ consensus # "pending"
     /\ SevereVoters(evidence) # {}
     /\ \A i \in SevereVoters(evidence) : evidence[i].name = "AI Literature")
        => consensus # "severe"

\* C19 witness: the AI record votes severe next to an RxNorm record voting
\* mild, and the consensus is moderate.
C19_Witness ==
    /\ consensus = "moderate"
    /\ Len(evidence) = 2
    /\ \E i, j \in 1..2 :
         /\ evidence[i] = [name |-> "AI Literature", severity |-> "severe"]
         /\ evidence[j] = [name |-> "RxNorm", severity |-> "mild"]

\* C17: the summary of a pair report computed on a cache miss falls in
\* exactly one of three cases: (a) the merged list is non-empty and the
\* summary is that of a merged source; (b) the merged list is empty, some
\* primary provider ran without error and the summary is "No significant
\* interactions found"; (c) no primary provider ran without error, the
\* summary is "Limited evidence available" and the confidence is 0.
C17_SummaryCases ==
    PairComputed =>
        LET a == Len(pairOut.sources) > 0 /\ pairOut.summary = "first_source"
            b == /\ Len(pairOut.sources) = 0
                 /\ SomePrimaryOk
                 /\ pairOut.summary = "no_significant_interactions"
            c == /\ ~SomePrimaryOk
                 /\ pairOut.summary = "limited_evidence"
                 /\ pairOut.confidence.num = 0
        IN /\ a \/ b \/ c
           /\ ~(a /\ b) /\ ~(a /\ c) /\ ~(b /\ c)

\* C17 witness: a pair without RxNorm identifiers whose adverse-event call
\* failed, with no SUPP.AI key: the summary is "Limited evidence available".
C17_Witness ==
    /\ PairComputed
    /\ ~RxAttempted
    /\ pairRes.ae.error
    /\ ~pairIn.suppaiKey
    /\ pairOut.summary = "limited_evidence"
    /\ pairOut.severity = "unknown"

\* the ranking of the claim: unknown < none < mild < moderate < severe
SeverityRank(sev) ==
    CASE sev = "unknown" -> 0 [] sev = "none" -> 1 [] sev = "mild" -> 2
      [] sev = "moderate" -> 3 [] sev = "severe" -> 4

\* C16: for every evidence list E, mergeSources(E) holds exactly one record
\* for each origin present in E and none for an absent origin, and the
\* severity of the merged record of an origin is the greatest, under
\* unknown < none < mild < moderate < severe, of that origin's records in E.
C16_OneRecordPerOriginMaxSeverity ==
    merged.done =>
        /\ {merged.out[k].name : k \in 1..Len(merged.out)}
              = {mergeIn[k].name : k \in 1..Len(mergeIn)}
        /\ \A j, k \in 1..Len(merged.out) :
              merged.out[j].name = merged.out[k].name => j = k
        /\ \A k \in 1..Len(merged.out) :
              /\ \E j \in 1..Len(mergeIn) :
                    /\ mergeIn[j].name = merged.out[k].name
                    /\ mergeIn[j].severity = merged.out[k].severity
              /\ \A j \in 1..Len(mergeIn) :
                    mergeIn[j].name = merged.out[k].name
                      => SeverityRank(mergeIn[j].severity)
                           <= SeverityRank(merged.out[k].severity)

\* C16 witness: three records of one origin voting none, unknown and mild
\* in that order were merged into one record.
C16_Witness ==
    /\ merged.done
    /\ Len(mergeIn) = 3
    /\ \A k \in 1..3 : mergeIn[k].name = "RxNorm"
    /\ mergeIn[1].severity = "none"
    /\ mergeIn[2].severity = "unknown"
    /\ mergeIn[3].severity = "mild"
    /\ Len(merged.out) = 1

\* C20: for every list of n input items, whether or not their canonical
\* values are distinct, the response holds exactly n single reports,
\* n(n-1)/2 pair reports and n(n-1)(n-2)/6 triple reports.
C20_ReportCounts ==
    response.returned =>
        /\ Len(response.singles) = NumItems
        /\ Len(response.pairs) = (NumItems * (NumItems - 1)) \div 2
        /\ Len(response.triples) = (NumItems * (NumItems - 1) * (NumItems - 2)) \div 6

-----------------------------------------------------------------------------
(* Properties of the request validation *)

\* a request arrives at POST: it is taken up or answered with an error
Arrival == response' # response /\ response'.status # 200

-----------------------------------------------------------------------------
(* Properties of the canonical values and the pair key *)

\* C22: for all strings a and b, generatePairKey(a, b) equals
\* generatePairKey(b, a).
C22_PairKeySymmetric ==
    call.op = "generatePairKey" => call.result = generatePairKeyString(call.b, call.a)

\* a key was built for two arguments that sort swaps
C22_Witness ==
    /\ call.op = "generatePairKey"
    /\ StringLess(normalizeMedicationValue(call.b), normalizeMedicationValue(call.a))
    /\ normalizeMedicationValue(call.b) # <<>>

\* C23: canonicalization is idempotent: for every string s over letters,
\* whitespace and '/', normalizeMedicationValue applied to
\* normalizeMedicationValue(s) gives normalizeMedicationValue(s); and so
\* generatePairKey of the canonicalized arguments equals generatePairKey of
\* the raw arguments.
C23_CanonicalizationIdempotent ==
    /\ call.op = "normalizeMedicationValue" =>
          normalizeMedicationValue(call.result) = call.result
    /\ call.op = "generatePairKey" =>
          generatePairKeyString(normalizeMedicationValue(call.a),
                                normalizeMedicationValue(call.b)) = call.result

\* a string with whitespace runs around a slash was canonicalized
C23_Witness ==
    /\ call.op = "normalizeMedicationValue"
    /\ Len(call.value) = MaxStringLen
    /\ Len(call.result) = 2
    /\ call.result[2] = "/"
    /\ \E i \in 1..(Len(call.value) - 1) : IsSpace(call.value[i]) /\ IsSpace(call.value[i + 1])

-----------------------------------------------------------------------------
(* Properties of the label provider *)

\* the text mentions a member of the class table other than the queried one
MentionsOtherMember(text, queried) == \E m \in OTHER_NSAIDS \ {queried} : m \in text

\* C24: no warning returned by the label provider for a queried item
\* mentions a different member of the NSAID class table; when every warning
\* of the accepted record mentions another class member, the returned
\* record has no warnings.
C24_NoWarningMentionsOtherMember ==
    (call.op = "extractFdaLabelDataWithFilter" /\ call.result.found) =>
        /\ \A k \in 1..Len(call.result.warnings.list) :
              ~MentionsOtherMember(call.result.warnings.list[k], call.queried)
        /\ \A r \in Range(call.results) :
              (/\ call.queried \in r.generic_name
               /\ ~labelContainsOtherNSAIDs(r, call.queried)
               /\ \A k \in 1..Len(r.warnings.list) :
                     MentionsOtherMember(r.warnings.list[k], call.queried))
              => ~call.result.warnings.present

-----------------------------------------------------------------------------
(* Properties of the provider-status trace *)

\* the error strings of the provider statuses recorded for the request
TraceErrors ==
    UNION {itemTask[i].errors : i \in ItemIds} \cup UNION {pairTask[p].errors : p \in PairIds}

\* C25: in debug mode no error string of a provider-status trace entry
\* contains the name of a credential environment variable (SUPPAI_API_KEY,
\* OPENAI_API_KEY) or the substrings "Bearer" or "token", for every provider
\* outcome including an unset optional credential.
C25_NoSecretInTraceErrors ==
    \A error \in TraceErrors :
        \A word \in {"SUPPAI_API_KEY", "OPENAI_API_KEY", "Bearer", "token"} :
            ~Includes(error, word)

-----------------------------------------------------------------------------
(* Properties of the confidence and the notes of a pair report *)

\* C26: whenever no primary source (RxNorm interactions, pair adverse
\* events, supplement interactions) ran successfully for a pair, the pair
\* report's confidence is 0 and its summary begins "Limited evidence
\* available", including when the AI literature source contributed a record.
C26_NoPrimaryMeansZeroAndLimited ==
    (PairComputed /\ ~SomePrimaryOk) =>
        /\ pairOut.confidence.num = 0
        /\ pairOut.summary = "limited_evidence"

\* the number of primary providers that were called and returned without
\* error
PrimaryOkCount ==
    (IF RxAttempted /\ ~pairRes.rx.error THEN 1 ELSE 0)
    + (IF ~pairRes.ae.error THEN 1 ELSE 0)
    + (IF pairIn.suppaiKey /\ ~pairRes.supp.error THEN 1 ELSE 0)

\* 0.30 for one, 0.50 for two, 0.70 for three or more, in units of 1/10000
Baseline(k) == Fixed(IF k >= 3 THEN 7000 ELSE IF k = 2 THEN 5000 ELSE 3000)

\* C27 as stated: when a pair's merged source list is empty and k >= 1
\* primary sources ran without error, the pair confidence is 0.30 if k = 1,
\* 0.50 if k = 2 and 0.70 if k >= 3, whatever the outcome of the remaining
\* providers; in particular every pair report with severity none has
\* confidence in {0.30, 0.50, 0.70}.
C27_BaselineByPrimaryCount ==
    PairComputed =>
        /\ (Len(pairOut.sources) = 0 /\ PrimaryOkCount >= 1) =>
              pairOut.confidence = Baseline(PrimaryOkCount)
        /\ pairOut.severity = "none" =>
              pairOut.confidence \in {Baseline(1), Baseline(2), Baseline(3)}

\* C27 amended: when a pair's merged source list is empty and every
\* attempted provider ran without error, k >= 1 primary sources ran without
\* error, the severity is none and the confidence is 0.30 if k = 1, 0.50 if
\* k = 2 and 0.70 if k = 3; when the merged list is empty and an attempted
\* provider returned an error the confidence is 0. Every pair report with
\* severity none and no sources has confidence in {0.30, 0.50, 0.70}.
C27_BaselineWhenAllAttemptedOk ==
    PairComputed =>
        /\ (Len(pairOut.sources) = 0 /\ NoAttemptedError) =>
              /\ PrimaryOkCount >= 1
              /\ pairOut.severity = "none"
              /\ pairOut.confidence = Baseline(PrimaryOkCount)
        /\ (Len(pairOut.sources) = 0 /\ ~NoAttemptedError) =>
              /\ pairOut.severity = "unknown"
              /\ pairOut.confidence = Fixed(0)
        /\ (pairOut.severity = "none" /\ Len(pairOut.sources) = 0) =>
              pairOut.confidence \in {Baseline(1), Baseline(2), Baseline(3)}

\* C27 witness: three primary providers ran without error and found
\* nothing; the report has severity none and confidence 0.70.
C27_Witness ==
    /\ PairComputed
    /\ Len(pairOut.sources) = 0
    /\ PrimaryOkCount = 3
    /\ pairOut.severity = "none"
    /\ pairOut.confidence = Fixed(7000)

\* the names of the records of a list are pairwise different
OnePerOrigin(sources) ==
    \A i, j \in 1..Len(sources) : sources[i].name = sources[j].name => i = j

\* C28 as stated: for every pair report whose sources list is non-empty,
\* severity equals calculateConsensusSeverity(sources) and confidence equals
\* calculateOverallConfidence(sources), and sources holds at most one
\* record per origin.
C28_SeverityAndConfidenceFromSources ==
    (PairComputed /\ Len(pairOut.sources) > 0) =>
        /\ pairOut.severity = calculateConsensusSeverity(pairOut.sources)
        /\ pairOut.confidence = calculateOverallConfidence(pairOut.sources)
        /\ OnePerOrigin(pairOut.sources)

\* C28 amended: for every pair report computed on a cache miss whose sources
\* list is non-empty, sources holds at most one record per origin; when the
\* RxNorm interactions call was attempted and returned an error the
\* severity is unknown and the confidence 0; otherwise severity equals
\* calculateConsensusSeverity(sources) and confidence equals
\* calculateOverallConfidence(sources).
C28_FromSourcesUnlessRxFailed ==
    (PairComputed /\ Len(pairOut.sources) > 0) =>
        /\ OnePerOrigin(pairOut.sources)
        /\ IF RxAttempted /\ pairRes.rx.error
           THEN pairOut.severity = "unknown" /\ pairOut.confidence = Fixed(0)
           ELSE /\ pairOut.severity = calculateConsensusSeverity(pairOut.sources)
                /\ pairOut.confidence = calculateOverallConfidence(pairOut.sources)

\* C28 witness: RxNorm answered, SUPP.AI reported two interactions that were
\* merged into one record, and a third origin contributed
C28_Witness ==
    /\ PairComputed
    /\ RxAttempted /\ pairRes.rx.found
    /\ Len(pairRes.supp.interactions) = 2
    /\ Len(pairOut.sources) = 3
    /\ pairOut.severity = calculateConsensusSeverity(pairOut.sources)
    /\ pairOut.severity \notin {"unknown", "none"}
    /\ pairOut.confidence.num > 0

\* C29: every pair report and every triple report of a response has at
\* most 3 keyNotes entries, for every combination of provider outcomes
\* including a failed RxNorm interactions call.
C29_AtMostThreeKeyNotes ==
    /\ PairComputed => pairOut.keyNotes <= 3
    /\ response.returned =>
          /\ \A k \in 1..Len(response.pairs) : response.pairs[k].keyNotes <= 3
          /\ \A k \in 1..Len(response.triples) : response.triples[k].keyNotes <= 3

\* the request being served, or just served, re-issues without forceRefresh
\* and under the same calcVersion the items of the request served before
ServedAgain ==
    /\ previous.returned
    /\ ~request.forceRefresh
    /\ \/ phase \in {"items", "pairs", "singles"} /\ calcVersion = previous.calcVersion
       \/ phase = "done" /\ response.returned
            /\ response.calcVersion = previous.calcVersion

\* C30: a pair report computed on a cache miss is written to the pair cache
\* whatever its provider calls returned, errors included; a later request
\* for the same pair with forceRefresh = false under the same calcVersion
\* calls no pair provider and returns the stored report (for example
\* severity unknown with confidence 0), whether or not the providers are up
\* again.
C30_DegradedReportServedFromCache ==
    /\ phase \in {"pairs", "singles"} =>
          \A p \in 1..NumPairs :
             (pairTask[p].pc = "done" /\ ~pairTask[p].hit) =>
                pairCache[PairKeyOf(p)] = [present |-> TRUE, calc_version |-> calcVersion,
                                           result_json |-> Json(pairTask[p].out)]
    /\ ServedAgain =>
          \A p \in 1..NumPairs :
             /\ pairTask[p].pc \notin {"calls", "cacheWrite"}
             /\ pairTask[p].pc = "done" =>
                   /\ pairTask[p].hit
                   /\ pairTask[p].out = Json(PairOf(previous, ItemA(p), ItemB(p)))
    /\ (ServedAgain /\ response.returned) =>
          Range(response.pairs) = {Json(rep) : rep \in Range(previous.pairs)}

\* a report of severity unknown and confidence 0, computed while the RxNorm
\* interactions call failed, was returned again from the pair cache by a
\* request served with every provider up and RxNorm describing an
\* interaction for the pair
C30_Witness ==
    /\ ServedAgain
    /\ response.returned
    /\ down = {}
    /\ \E p \in 1..NumPairs :
          /\ pairTask[p].hit
          /\ pairTask[p].out.severity = "unknown"
          /\ pairTask[p].out.confidence.num = 0
          /\ pairTask[p].out \in Range(response.pairs)
          /\ LookupA(p).rxnorm_rxcui /\ LookupB(p).rxnorm_rxcui
          /\ RxNormFact(world, PairKeyOf(p)).found

-----------------------------------------------------------------------------
(* Further properties of the limiter *)

\* the tasks that hold a slot: started, and their .finally callback (active--)
\* has not run yet
Holding == {t \in Tasks : taskState[t] \in {"running", "settled"}}

\* C31: the limiter is work-conserving: in every reachable state in which
\* its queue is non-empty, exactly N tasks hold a slot (the active counter is
\* N and N started tasks have not given their slot back), so no slot is free
\* while a task waits.
C31_WorkConserving ==
    Len(queue) > 0 => (active = concurrency /\ Cardinality(Holding) = concurrency)

\* a task waits behind a full limiter after slots were given back by a
\* fulfilled and by a rejected task and the waiting went on
C31_Witness ==
    /\ Len(queue) > 0
    /\ active = concurrency
    /\ concurrency > 1
    /\ \E t, u \in Tasks :
         /\ taskState[t] = "released" /\ taskOutcome[t] = "rejected"
         /\ taskState[u] = "released" /\ taskOutcome[u] = "fulfilled"

\* C32: when every started task eventually settles, every submitted task
\* eventually starts, its promise settles with the outcome of that task
\* (fulfilled or rejected) and it gives its slot back, a rejected task as a
\* fulfilled one; once every submitted task has settled no task is running
\* and the queue is empty, and once each has given its slot back the
\* running count is 0.
C32_EveryTaskStartsAndSettles ==
    /\ \A t \in Tasks :
          (taskState[t] \in {"queued", "running", "settled"}) ~>
              (/\ taskState[t] = "released"
               /\ taskOutcome[t] \in {"fulfilled", "rejected"}
               /\ \E i \in 1..Len(startOrder) : startOrder[i] = t)
    /\ [](\A t \in Tasks : taskState[t] \in {"running", "settled", "released"} =>
              \E i \in 1..Len(startOrder) : startOrder[i] = t)
    /\ []((\A t \in 1..nSubmitted : taskState[t] \in {"settled", "released"}) =>
              (queue = <<>> /\ Running = {}))
    /\ []((\A t \in 1..nSubmitted : taskState[t] = "released") => active = 0)

\* every task was submitted to a limiter narrower than their number, some
\* were rejected and some fulfilled, and all have given their slot back
C32_Witness ==
    /\ nSubmitted = MaxTasks
    /\ concurrency < MaxTasks
    /\ \A t \in Tasks : taskState[t] = "released"
    /\ \E t, u \in Tasks : taskOutcome[t] = "rejected" /\ taskOutcome[u] = "fulfilled"
    /\ active = 0
    /\ queue = <<>>

-----------------------------------------------------------------------------
(* Further properties of the reports *)

\* the severities of the three pair reports of the k-th triple of response r
TriplePairSeverities(r, k) ==
    LET t == generateTriples(request.items)[k]
        x == request.items[t[1]]
        y == request.items[t[2]]
        z == request.items[t[3]]
    IN {PairOf(r, x, y).severity, PairOf(r, x, z).severity, PairOf(r, y, z).severity}

\* C33: every triple report's severity is at least the highest severity
\* among its three pair reports, under the order
\* unknown < none < mild < moderate < severe.
C33_TripleAtLeastItsPairs ==
    response.returned =>
        \A k \in 1..Len(response.triples) :
           \A sev \in TriplePairSeverities(response, k) :
              severityOrder(response.triples[k].severity) >= severityOrder(sev)

\* C34: a pair report's summary is the "No significant interactions found"
\* text only if its severity is none and its confidence is at least 0.30; a
\* report of severity unknown never carries that summary.
C34_NoSignificantMeansNone ==
    (PairComputed /\ pairOut.summary = "no_significant_interactions") =>
        /\ pairOut.severity = "none"
        /\ pairOut.confidence.num >= 3000 * pairOut.confidence.den

-----------------------------------------------------------------------------
(* Further properties of the consensus engine *)

\* C35: for every non-empty evidence list, calculateConsensusSeverity is
\* never higher, under unknown < none < mild < moderate < severe, than the
\* highest severity voted by a record of the list.
C35_ConsensusNotAboveEvidence ==
    (consensus # "pending" /\ Len(evidence) > 0) =>
        \E i \in 1..Len(evidence) :
           severityOrder(consensus) <= severityOrder(evidence[i].severity)

\* the consensus of a list whose records vote different levels is below
\* the highest level voted: a severe vote without the support it needs
\* came out as moderate
C35_Witness ==
    /\ consensus = "moderate"
    /\ \E i, j \in 1..Len(evidence) :
          /\ evidence[i].severity = "severe"
          /\ evidence[j].severity = "mild"

-----------------------------------------------------------------------------
(* Properties of fetchWithRetry *)

\* C36: fetchWithRetry makes at most maxRetries + 1 attempts; once an
\* attempt has returned a response it makes no further attempt and nothing
\* else; the timer awaited between failed attempt k and attempt k + 1 is
\* backoffMs * k; when every attempt fails it throws the error of the last
\* attempt, after exactly maxRetries + 1 attempts; with maxRetries = 0 it
\* makes exactly one attempt.
C36_RetryDiscipline ==
    /\ [](call.op = "fetchWithRetry" =>
            /\ call.attempts <= call.maxRetries + 1
            /\ \A k \in 1..Len(call.waits) : call.waits[k] = call.backoffMs * k
            /\ Len(call.waits) = (IF call.pc = "fetch" THEN call.attempts
                                  ELSE call.attempts - 1)
            /\ Len(call.errors) = (IF call.pc = "returned" THEN call.attempts - 1
                                   ELSE call.attempts)
            /\ call.pc = "thrown" =>
                  /\ call.attempts = call.maxRetries + 1
                  /\ call.result = call.errors[Len(call.errors)]
            /\ (call.pc \in {"returned", "thrown"} /\ call.maxRetries = 0) =>
                  call.attempts = 1)
    /\ [][(call.op = "fetchWithRetry" /\ call.pc = "returned") => call' = call]_vars

\* three attempts failed, the last two with different errors, two timers
\* were awaited and the error of the third attempt was thrown
C36_Witness ==
    /\ call.op = "fetchWithRetry"
    /\ call.pc = "thrown"
    /\ call.maxRetries = 2
    /\ call.attempts = 3
    /\ Len(call.waits) = 2
    /\ call.errors[2] # call.errors[3]
    /\ call.result = call.errors[3]

-----------------------------------------------------------------------------
(* Properties of the debug trace *)

\* C37: in the debug trace, an attempted provider call that returned
\* data = null with no error is recorded ok = true when the provider is an
\* interactions provider and ok = false when it is a lookup provider,
\* whatever the item names are; a provider that was not attempted is
\* recorded attempted = false and ok = false.
C37_OkByProviderKind ==
    call.op = "trackProviderStatus" =>
        /\ (call.status.attempted /\ call.result = NoDataResult) =>
              /\ call.provider \in InteractionsProviders => call.status.ok
              /\ call.provider \in LookupProviders => ~call.status.ok
        /\ call.result = NullResult => (~call.status.attempted /\ ~call.status.ok)

-----------------------------------------------------------------------------
(* Properties of the cache stores across versions *)

\* C38: after calcVersion has changed, every cache entry written under the
\* previous version is invalid: a request for the items of the request
\* served under the other version, without forceRefresh, takes no item
\* lookup from the item-lookup store (every item is a miss and is
\* re-fetched) and no pair report from the pair store.
C38_OldVersionEntriesMiss ==
    (/\ previous.returned
     /\ phase \in {"items", "pairs", "singles"}
     /\ calcVersion # previous.calcVersion) =>
        /\ \A i \in 1..NumItems : itemTask[i].cached \cap ItemProviders = {}
        /\ \A p \in 1..NumPairs : ~pairTask[p].hit

=============================================================================
